---- MODULE Spec2Model ----
(***************************************************************************)
(* Model of the wallet transaction explorer: the useTransactions fetch     *)
(* orchestrator (hooks/useTransactions.ts), the Cosmos adapter factory     *)
(* (adapters/cosmos-factory.ts) and the perpetuals adapters                *)
(* (adapters/hyperliquid.ts, dydx.ts, gmx.ts, perps-factory.ts).           *)
(*                                                                         *)
(* JavaScript is single threaded: the synchronous part of a handler up to  *)
(* its first await, and the continuation that runs when the awaited        *)
(* adapter promise settles, are each one atomic step.  React re-renders    *)
(* between two user events, so a handler always sees the state left by     *)
(* the previous step.                                                      *)
(***************************************************************************)
EXTENDS Integers, Sequences, FiniteSets, TLC

VARIABLES
    transactions,    \* useState<NormalizedTransaction[]>([])
    loading,         \* useState(false)
    error,           \* useState<string | null>(null)
    hasMore,         \* useState(false)
    totalCount,      \* useState<number | undefined>(undefined)
    cursor,          \* useState<string | undefined>(undefined)
    currentChainId,  \* useState<string>('')
    currentAddress,  \* useState<string>('')
    inflight,        \* adapter promises that have not settled yet
    ledger,          \* what the LCD endpoints hold for each address
    calls,           \* number of adapter.fetchTransactions calls issued
    session,         \* number of accepted fetch() calls (query identity)
    lastResult,      \* the FetchResult of the adapter call that settled last
    event,           \* the handler that ran last, with its arguments
    venue,           \* the perps adapter under test ("none" outside SpecAdapters)
    perpsAddress,    \* the address given to the perps adapter
    rawFills,        \* what the venue's fills stream returns for the address
    rawFunding,      \* what the venue's funding stream returns for the address
    perpsResult,     \* what the perps adapter's fetchTransactions settled to
    proxyReq,        \* the request the CORS relay (api/proxy.ts) handled last
    proxyRes,        \* the response the relay gave to it
    proxyForwarded,  \* the hostnames the relay has called fetch() on
    exchange,        \* what the remote API answers to one adapter call
    outcome,         \* what the adapter's fetchTransactions settled to
    args,            \* the arguments of the pure function under study
    ret              \* the value it returned for them

proxyVars == <<proxyReq, proxyRes, proxyForwarded>>

vars == <<transactions, loading, error, hasMore, totalCount, cursor,
          currentChainId, currentAddress, inflight, ledger, calls, session,
          lastResult, event, venue, perpsAddress, rawFills, rawFunding, perpsResult,
          proxyReq, proxyRes, proxyForwarded, exchange, outcome, args, ret>>

exchangeVars == <<exchange, outcome>>

\* the state outside the hook and the adapters it calls
pureVars == <<args, ret>>

otherVars == <<proxyVars, exchangeVars, pureVars>>

\* the hook, the ledger behind it and the perps adapter under test
coreVars == <<transactions, loading, error, hasMore, totalCount, cursor,
              currentChainId, currentAddress, inflight, ledger, calls, session,
              lastResult, event, venue, perpsAddress, rawFills, rawFunding, perpsResult>>

perpsVars == <<venue, perpsAddress, rawFills, rawFunding, perpsResult>>

hookState == <<transactions, loading, error, hasMore, totalCount, cursor,
               currentChainId, currentAddress>>

----------------------------------------------------------------------------
(* Bounds *)

PageLimit == 2
MaxCalls == 3
MaxInflight == 2
MaxTs == 2
MaxEvents == 2

Null == "null"
Undefined == "undefined"

Min(a, b) == IF a < b THEN a ELSE b

----------------------------------------------------------------------------
(* Cosmos adapter factory *)

\* cosmosChainConfigs: the id and addressPrefix of two of the configured chains
cosmosChainConfigs ==
    { [id |-> "osmosis", addressPrefix |-> "osmo"],
      [id |-> "cosmos",  addressPrefix |-> "cosmos"] }

\* adapters: Record<string, ChainAdapter>, built by generateCosmosAdapters
adapters ==
    [id \in {c.id : c \in cosmosChainConfigs} |->
        CHOOSE c \in cosmosChainConfigs : c.id = id]

\* getAdapter(chainId): adapters[chainId], undefined for an unregistered id
getAdapter(chainId) ==
    IF chainId \in DOMAIN adapters
    THEN [found |-> TRUE, id |-> adapters[chainId].id,
          addressPrefix |-> adapters[chainId].addressPrefix]
    ELSE [found |-> FALSE, id |-> "", addressPrefix |-> ""]

\* The chain identifiers and address texts the user can submit.  An address
\* text is described by what the address regex looks at: the text before
\* the separator "1", the number of characters after it, and whether all of
\* those are in [a-z0-9].
ChainIds == {"osmosis", "cosmos", "solana"}

AddressShape ==
    [a \in {"osmoA", "osmoB", "cosmosA", "osmoShort"} |->
        CASE a = "osmoA"   -> [prefix |-> "osmo",   bodyLen |-> 38, bodyOk |-> TRUE]
          [] a = "osmoB"   -> [prefix |-> "osmo",   bodyLen |-> 38, bodyOk |-> TRUE]
          [] a = "cosmosA" -> [prefix |-> "cosmos", bodyLen |-> 38, bodyOk |-> TRUE]
          [] OTHER         -> [prefix |-> "osmo",   bodyLen |-> 37, bodyOk |-> TRUE]]

Addresses == DOMAIN AddressShape

\* validateAddress with the {38} length of the regex dropped
validateAddress_AnyLength(config, address) ==
    /\ AddressShape[address].prefix = config.addressPrefix
    /\ AddressShape[address].bodyOk

\* new RegExp(`^${config.addressPrefix}1[a-z0-9]{38}$`).test(address)
validateAddress(config, address) ==
    /\ AddressShape[address].prefix = config.addressPrefix
    /\ AddressShape[address].bodyLen = 38
    /\ AddressShape[address].bodyOk

\* The LCD serves pagination.limit entries from pagination.offset of the
\* list matching the event query, newest first.
LcdPage(list, limit, offset) ==
    SubSeq(list, offset + 1, Min(offset + limit, Len(list)))

\* normalizeTxs: one NormalizedTransaction per tx_response
normalizeTxs(txResponses, address, cfg) ==
    [i \in 1..Len(txResponses) |->
        [chainId |-> cfg.id,
         address |-> address,
         datetimeUtc |-> txResponses[i].timestamp,
         hash |-> txResponses[i].txhash]]

\* fetchTxsFromLCD(address, direction, limit, offset) on a responding endpoint
fetchTxsFromLCD(led, address, direction, limit, offset, cfg) ==
    normalizeTxs(LcdPage(led[address][direction], limit, offset), address, cfg)

\* Array.from(new Map(allTxs.map(tx => [tx.hash, tx])).values()):
\* a Map keeps a key at the position of its first insertion and holds the
\* value of its last insertion.
FirstKeys(seq) ==
    LET F[i \in 0..Len(seq)] ==
            IF i = 0 THEN <<>>
            ELSE IF \E j \in 1..(i-1) : seq[j].hash = seq[i].hash
                 THEN F[i-1]
                 ELSE Append(F[i-1], seq[i].hash)
    IN F[Len(seq)]

LastWith(seq, h) ==
    seq[CHOOSE i \in 1..Len(seq) :
            /\ seq[i].hash = h
            /\ \A j \in (i+1)..Len(seq) : seq[j].hash # h]

\* the merge without the Map: every entry of both query results is kept
DedupByHash_None(seq) == seq

DedupByHash(seq) ==
    LET ks == FirstKeys(seq)
    IN [i \in 1..Len(ks) |-> LastWith(seq, ks[i])]

\* Array.prototype.sort with (a, b) => time(b) - time(a): stable, newest first
InsertDesc(s, x) ==
    LET k == Cardinality({j \in 1..Len(s) : s[j].datetimeUtc >= x.datetimeUtc})
    IN SubSeq(s, 1, k) \o <<x>> \o SubSeq(s, k + 1, Len(s))

\* the sort with the comparator's operands swapped: oldest first
SortByTimeDesc_Asc(seq) ==
    LET InsertAsc(s, x) ==
            LET k == Cardinality({j \in 1..Len(s) : s[j].datetimeUtc <= x.datetimeUtc})
            IN SubSeq(s, 1, k) \o <<x>> \o SubSeq(s, k + 1, Len(s))
        F[i \in 0..Len(seq)] ==
            IF i = 0 THEN <<>> ELSE InsertAsc(F[i-1], seq[i])
    IN F[Len(seq)]

SortByTimeDesc(seq) ==
    LET F[i \in 0..Len(seq)] ==
            IF i = 0 THEN <<>> ELSE InsertDesc(F[i-1], seq[i])
    IN F[Len(seq)]

\* uniqueTxs of createCosmosAdapter.fetchTransactions: merge, dedup, sort
CosmosUniqueTxs(led, address, limit, offset, cfg) ==
    LET sentTxs == fetchTxsFromLCD(led, address, "sender", limit, offset, cfg)
        receivedTxs == fetchTxsFromLCD(led, address, "recipient", limit, offset, cfg)
        allTxs == sentTxs \o receivedTxs
    IN SortByTimeDesc(DedupByHash(allTxs))

\* String(n) and parseInt(s) on the offsets a cursor can hold
MaxOffset == MaxCalls * PageLimit

String(n) == ToString(n)

parseInt(s) == CHOOSE n \in 0..MaxOffset : ToString(n) = s

\* createCosmosAdapter.fetchTransactions(address, {cursor, limit})
CosmosFetchTransactions(led, address, limit, cur, cfg) ==
    LET offset == IF cur # Undefined /\ cur # "" THEN parseInt(cur) ELSE 0
        uniqueTxs == CosmosUniqueTxs(led, address, limit, offset, cfg)
        more == Len(uniqueTxs) >= limit
    IN [ok |-> TRUE,
        transactions |-> SubSeq(uniqueTxs, 1, Min(limit, Len(uniqueTxs))),
        nextCursor |-> IF more THEN String(offset + limit) ELSE Undefined,
        hasMore |-> more,
        totalCount |-> Len(uniqueTxs)]

----------------------------------------------------------------------------
(* Perpetuals adapters *)

\* Amounts are integers counting units of 10^-9 of the settlement token,
\* timestamps are integers counting milliseconds.  NaN is what parseFloat
\* gives for a missing field.
NaN == 0 - 1000000

IsNaN(n) == n = NaN

Abs(n) == IF IsNaN(n) THEN NaN ELSE IF n < 0 THEN 0 - n ELSE n

\* truncateDecimals(n, 8): Math.trunc(n * 10^8) / 10^8
truncateDecimals(n) ==
    IF IsNaN(n) THEN NaN
    ELSE IF n >= 0 THEN (n \div 10) * 10 ELSE 0 - (((0 - n) \div 10) * 10)

\* parseFloat of a field that may be absent
parseFloat(present, n) == IF present THEN n ELSE NaN

\* the PerpsChainConfig and chainInfo of the three perps adapters
PerpsConfig ==
    [v \in {"hyperliquid", "dydx", "gmx"} |->
        CASE v = "hyperliquid" -> [id |-> "hyperliquid", settlementToken |-> "USDC"]
          [] v = "dydx"        -> [id |-> "dydx", settlementToken |-> "USDC"]
          [] OTHER             -> [id |-> "gmx", settlementToken |-> "USD"]]

Venues == DOMAIN PerpsConfig

\* The address texts given to a perps adapter, by what its regex looks at
PerpsAddressOk ==
    [a \in {"0xA", "0xShort"} |-> a = "0xA"]

\* BasePerpsAdapter.validateAddress
perpsValidateAddress(address) == PerpsAddressOk[address]

Thrown == [ok |-> FALSE, tx |-> [hash |-> <<>>]]

\* createTransaction storing amount and fee with their sign
createTransaction_Signed(cfg, params) ==
    LET tag == params.tag
        pnl == params.pnl
        ge0 == ~IsNaN(pnl) /\ pnl >= 0
        direction ==
            IF tag = "open_position" THEN "out"
            ELSE IF tag = "close_position" THEN (IF ge0 THEN "in" ELSE "out")
            ELSE IF tag = "funding_payment" THEN (IF ge0 THEN "in" ELSE "out")
            ELSE "unknown"
    IN [chainId |-> cfg.id,
        address |-> params.address,
        datetimeUtc |-> params.timestampMs,
        hash |-> params.hash,
        direction |-> direction,
        asset |-> params.asset,
        amount |-> truncateDecimals(params.amount),
        fee |-> truncateDecimals(params.fee),
        feeAsset |-> cfg.settlementToken,
        tag |-> tag,
        pnl |-> truncateDecimals(pnl),
        paymentToken |-> IF tag \in {"close_position", "funding_payment"}
                         THEN cfg.settlementToken ELSE Undefined]

\* BasePerpsAdapter.createTransaction
createTransaction(cfg, params) ==
    LET tag == params.tag
        pnl == params.pnl
        ge0 == ~IsNaN(pnl) /\ pnl >= 0
        direction ==
            IF tag = "open_position" THEN "out"
            ELSE IF tag = "close_position" THEN (IF ge0 THEN "in" ELSE "out")
            ELSE IF tag = "funding_payment" THEN (IF ge0 THEN "in" ELSE "out")
            ELSE "unknown"
    IN [chainId |-> cfg.id,
        address |-> params.address,
        datetimeUtc |-> params.timestampMs,
        hash |-> params.hash,
        direction |-> direction,
        asset |-> params.asset,
        amount |-> truncateDecimals(Abs(params.amount)),
        fee |-> truncateDecimals(Abs(params.fee)),
        feeAsset |-> cfg.settlementToken,
        tag |-> tag,
        pnl |-> truncateDecimals(pnl),
        paymentToken |-> IF tag \in {"close_position", "funding_payment"}
                         THEN cfg.settlementToken ELSE Undefined]

\* isClose(dir): dir.startsWith('Close'); dir is the text as its words
isClose(dir) == Len(dir) > 0 /\ dir[1] = "Close"

\* the fills.map callback passing closedPnl on for every fill, open or close
HyperliquidFillTx_KeepsPnl(fill, address) ==
    IF ~fill.hasDir THEN Thrown
    ELSE
    LET close == isClose(fill.dir)
        size == truncateDecimals(Abs(fill.sz))
        fee == truncateDecimals(Abs(fill.fee))
        closedPnl == truncateDecimals(parseFloat(fill.hasClosedPnl, fill.closedPnl))
        tag == IF close THEN "close_position" ELSE "open_position"
    IN [ok |-> TRUE,
        tx |-> createTransaction(PerpsConfig["hyperliquid"],
                [hash |-> IF fill.hash # "" THEN <<fill.hash, ToString(fill.tid)>>
                          ELSE <<"fill", ToString(fill.tid)>>,
                 timestampMs |-> fill.time,
                 asset |-> fill.coin,
                 amount |-> size,
                 fee |-> fee,
                 pnl |-> closedPnl,
                 tag |-> tag,
                 address |-> address])]

\* HyperliquidAdapter.fetchTransactions: fills.map callback.  A fill without
\* a dir makes dir.startsWith throw a TypeError.
HyperliquidFillTx(fill, address) ==
    IF ~fill.hasDir THEN Thrown
    ELSE
    LET close == isClose(fill.dir)
        size == truncateDecimals(Abs(fill.sz))
        fee == truncateDecimals(Abs(fill.fee))
        closedPnl == truncateDecimals(parseFloat(fill.hasClosedPnl, fill.closedPnl))
        tag == IF close THEN "close_position" ELSE "open_position"
    IN [ok |-> TRUE,
        tx |-> createTransaction(PerpsConfig["hyperliquid"],
                [hash |-> IF fill.hash # "" THEN <<fill.hash, ToString(fill.tid)>>
                          ELSE <<"fill", ToString(fill.tid)>>,
                 timestampMs |-> fill.time,
                 asset |-> fill.coin,
                 amount |-> size,
                 fee |-> fee,
                 pnl |-> IF close THEN closedPnl ELSE 0,
                 tag |-> tag,
                 address |-> address])]

\* HyperliquidAdapter.fetchTransactions: funding.map callback
HyperliquidFundingTx(entry, address) ==
    LET usdcAmount == truncateDecimals(entry.usdc)
    IN [ok |-> TRUE,
        tx |-> createTransaction(PerpsConfig["hyperliquid"],
                [hash |-> IF entry.hash # ""
                          THEN <<entry.hash, "funding", ToString(entry.time)>>
                          ELSE <<"funding", entry.coin, ToString(entry.time)>>,
                 timestampMs |-> entry.time,
                 asset |-> "USDC",
                 amount |-> Abs(usdcAmount),
                 fee |-> 0,
                 pnl |-> usdcAmount,
                 tag |-> "funding_payment",
                 address |-> address])]

\* DydxAdapter.fetchTransactions: fills.map callback
DydxFillTx(fill, address) ==
    IF fill.marketType # "PERPETUAL" THEN Thrown
    ELSE IF ~fill.hasRealizedPnl THEN Thrown
    ELSE
    LET size == truncateDecimals(fill.size)
        fee == truncateDecimals(Abs(fill.fee))
        pnl == truncateDecimals(fill.realizedPnl)
        close == pnl # 0
        tag == IF close THEN "close_position" ELSE "open_position"
    IN [ok |-> TRUE,
        tx |-> createTransaction(PerpsConfig["dydx"],
                [hash |-> IF fill.transactionHash # ""
                          THEN <<fill.transactionHash, fill.id>>
                          ELSE <<"dydx", "fill", fill.id>>,
                 timestampMs |-> fill.createdAt,
                 asset |-> fill.market[1],
                 amount |-> size,
                 fee |-> fee,
                 pnl |-> IF close THEN pnl ELSE 0,
                 tag |-> tag,
                 address |-> address])]

\* DydxAdapter.fetchTransactions: funding.map callback
DydxFundingTx(payment, address) ==
    LET amount == truncateDecimals(payment.payment)
    IN [ok |-> TRUE,
        tx |-> createTransaction(PerpsConfig["dydx"],
                [hash |-> <<"dydx", "funding", payment.market,
                            ToString(payment.effectiveAtHeight)>>,
                 timestampMs |-> payment.effectiveAt,
                 asset |-> "USDC",
                 amount |-> Abs(amount),
                 fee |-> 0,
                 pnl |-> amount,
                 tag |-> "funding_payment",
                 address |-> address])]

\* eventName.includes(word); eventName is the text as its words
Includes(eventName, word) == \E i \in 1..Len(eventName) : eventName[i] = word

\* getMarketSymbol: the symbol of a listed market, else the first ten
\* characters of the address (here the whole short address)
getMarketSymbol(marketAddress) ==
    IF marketAddress = "0xbtcmarket" THEN "BTC" ELSE marketAddress

\* GmxAdapter.fetchTransactions: actions.map callback.  The raw USD fields
\* count units of 10^21, which the division by 1e30 turns into 10^-9 USD; an
\* absent field is read as '0'.  An action without an eventName makes
\* eventName.includes throw a TypeError.
GmxActionTx(action, address) ==
    IF ~action.hasEventName THEN Thrown
    ELSE
    LET sizeDeltaUsd == truncateDecimals(Abs(action.sizeDeltaUsd))
        basePnlUsd == truncateDecimals(IF action.hasBasePnlUsd THEN action.basePnlUsd ELSE 0)
        priceImpactUsd == truncateDecimals(action.priceImpactUsd)
        totalPnl == truncateDecimals(basePnlUsd + priceImpactUsd)
        isIncrease == Includes(action.eventName, "Increase")
        isDecrease == Includes(action.eventName, "Decrease")
        tag == IF isIncrease THEN "open_position"
               ELSE IF isDecrease THEN "close_position"
               ELSE IF totalPnl # 0 THEN "close_position" ELSE "open_position"
    IN [ok |-> TRUE,
        tx |-> createTransaction(PerpsConfig["gmx"],
                [hash |-> <<action.hash, action.id>>,
                 timestampMs |-> action.timestamp * 1000,
                 asset |-> getMarketSymbol(action.marketAddress),
                 amount |-> sizeDeltaUsd,
                 fee |-> 0,
                 pnl |-> IF tag = "close_position" THEN totalPnl ELSE 0,
                 tag |-> tag,
                 address |-> address])]

\* the fills.map / actions.map callback of the venue's adapter
FillTx(v, fill, address) ==
    CASE v = "hyperliquid" -> HyperliquidFillTx(fill, address)
      [] v = "dydx"        -> DydxFillTx(fill, address)
      [] OTHER             -> GmxActionTx(fill, address)

\* the funding.map callback of the venue's adapter
FundingTx(v, entry, address) ==
    CASE v = "hyperliquid" -> HyperliquidFundingTx(entry, address)
      [] OTHER             -> DydxFundingTx(entry, address)

NotCalled == [called |-> FALSE, ok |-> FALSE, transactions |-> <<>>,
              hasMore |-> FALSE, totalCount |-> 0]

PerpsRejected == [called |-> TRUE, ok |-> FALSE, transactions |-> <<>>,
                  hasMore |-> FALSE, totalCount |-> 0]

\* the sort of the merged list: (a, b) => time(b) - time(a)
PerpsSort(txs) == SortByTimeDesc(txs)

\* fetchTransactions(address) of HyperliquidAdapter, DydxAdapter, GmxAdapter
PerpsFetchTransactions(v, address, fills, funding) ==
    IF ~perpsValidateAddress(address) THEN PerpsRejected
    ELSE
    LET fillResults == [i \in 1..Len(fills) |-> FillTx(v, fills[i], address)]
        fundingResults == [i \in 1..Len(funding) |-> FundingTx(v, funding[i], address)]
        all == fillResults \o fundingResults
    IN IF \E i \in 1..Len(all) : ~all[i].ok THEN PerpsRejected
       ELSE LET allTransactions == PerpsSort([i \in 1..Len(all) |-> all[i].tx])
            IN [called |-> TRUE, ok |-> TRUE,
                transactions |-> allTransactions,
                hasMore |-> FALSE,
                totalCount |-> Len(allTransactions)]

----------------------------------------------------------------------------
(* Ledgers: what the LCD endpoints hold *)

RawTx(h, t) == [txhash |-> h, timestamp |-> t]

EmptyAccount == [sender |-> <<>>, recipient |-> <<>>]

\* The ledger the orchestrator runs against
FixedLedger ==
    [a \in {"osmoA", "osmoB", "cosmosA", "osmoShort"} |->
        CASE a = "osmoA" ->
                [sender    |-> <<RawTx("A1", 4), RawTx("A3", 2), RawTx("A4", 1)>>,
                 recipient |-> <<RawTx("A1", 4), RawTx("A2", 3)>>]
          [] a = "osmoB" ->
                [sender    |-> <<RawTx("B1", 2)>>,
                 recipient |-> <<>>]
          [] a = "cosmosA" ->
                [sender    |-> <<>>,
                 recipient |-> <<RawTx("C1", 1)>>]
          [] OTHER -> EmptyAccount]


EmptyLedger == [a \in Addresses |-> EmptyAccount]

\* The accounts an LCD can hold over three transactions: every transaction
\* has one timestamp, and each role's list holds a transaction at most once,
\* newest first (order_by=ORDER_BY_DESC); transactions of one block share a
\* timestamp.
Hashes == {"H1", "H2", "H3"}

SeqsUpTo(S, n) == UNION {[1..k -> S] : k \in 0..n}

NoRepeat(seq) == \A i, j \in 1..Len(seq) : seq[i] = seq[j] => i = j

RoleLists(tsOf) ==
    {[i \in 1..Len(hs) |-> RawTx(hs[i], tsOf[hs[i]])] :
        hs \in {q \in SeqsUpTo(Hashes, Cardinality(Hashes)) :
                    /\ NoRepeat(q)
                    /\ \A i, j \in 1..Len(q) : i < j => tsOf[q[i]] >= tsOf[q[j]]}}

CosmosAccounts ==
    UNION {[sender : RoleLists(tsOf), recipient : RoleLists(tsOf)] :
                tsOf \in [Hashes -> 1..MaxTs]}

\* What a venue's fills stream can return: k fills with distinct trade ids.
\* A field the venue left out is recorded by its has... flag.
HyperliquidFills(k) ==
    {[i \in 1..k |-> [tid |-> i, sz |-> 25, fee |-> 0 - 15, coin |-> "BTC"] @@ f[i]] :
        f \in [1..k -> [hash : {"0xa", ""},
                        time : 1..MaxTs,
                        hasDir : {TRUE},
                        dir : {<<"Open", "Long">>, <<"Close", "Long">>, <<>>},
                        hasClosedPnl : {TRUE},
                        closedPnl : {0 - 15, 15}]
                 \cup [hash : {"0xa", ""}, time : 1..MaxTs, hasDir : {TRUE},
                       dir : {<<"Open", "Long">>, <<"Close", "Long">>, <<>>},
                       hasClosedPnl : {FALSE}, closedPnl : {0}]
                 \cup [hash : {"0xa"}, time : 1..MaxTs, hasDir : {FALSE},
                       dir : {<<>>}, hasClosedPnl : {FALSE}, closedPnl : {0}]]}

DydxFills(k) ==
    {[i \in 1..k |-> [id |-> ToString(i), size |-> 25, fee |-> 0 - 15,
                      market |-> <<"BTC", "USD">>] @@ f[i]] :
        f \in [1..k -> [transactionHash : {"0xa", ""},
                        createdAt : 1..MaxTs,
                        marketType : {"PERPETUAL"},
                        hasRealizedPnl : {TRUE},
                        realizedPnl : {0 - 15, 0, 15}]
                 \cup [transactionHash : {"0xa", ""}, createdAt : 1..MaxTs,
                       marketType : {"PERPETUAL"}, hasRealizedPnl : {FALSE},
                       realizedPnl : {0}]
                 \cup [transactionHash : {"0xa"}, createdAt : 1..MaxTs,
                       marketType : {"SPOT"}, hasRealizedPnl : {TRUE},
                       realizedPnl : {0}]]}

GmxActions(k) ==
    {[i \in 1..k |-> [id |-> ToString(i), hash |-> "0xa", sizeDeltaUsd |-> 25,
                      marketAddress |-> IF i = 1 THEN "0xbtcmarket" ELSE "0xother"] @@ f[i]] :
        f \in [1..k -> [timestamp : 1..MaxTs,
                        hasEventName : {TRUE},
                        eventName : {<<"Position", "Increase">>, <<"Position", "Decrease">>,
                                     <<"Order", "Executed">>},
                        hasBasePnlUsd : {TRUE},
                        basePnlUsd : {15},
                        priceImpactUsd : {0, 0 - 15}]
                 \cup [timestamp : 1..MaxTs, hasEventName : {TRUE},
                       eventName : {<<"Position", "Increase">>, <<"Position", "Decrease">>,
                                    <<"Order", "Executed">>},
                       hasBasePnlUsd : {FALSE}, basePnlUsd : {0},
                       priceImpactUsd : {0, 0 - 15}]
                 \cup [timestamp : 1..MaxTs, hasEventName : {FALSE},
                       eventName : {<<>>}, hasBasePnlUsd : {TRUE}, basePnlUsd : {15},
                       priceImpactUsd : {0}]]}

\* What a venue's funding stream can return: k entries, one per coin and time
HyperliquidFunding(k) ==
    {f \in [1..k -> [hash : {"0x0", ""}, time : 1..MaxTs, coin : {"BTC", "ETH"},
                     usdc : {0 - 15, 15}]] :
        \A i, j \in 1..k : (f[i].time = f[j].time /\ f[i].coin = f[j].coin) => i = j}

DydxFunding(k) ==
    {[i \in 1..k |-> [effectiveAtHeight |-> f[i].effectiveAt] @@ f[i]] :
        f \in {g \in [1..k -> [market : {"BTC-USD", "ETH-USD"}, effectiveAt : 1..MaxTs,
                               payment : {0 - 15, 15}]] :
                 \A i, j \in 1..k :
                    (g[i].effectiveAt = g[j].effectiveAt /\ g[i].market = g[j].market)
                        => i = j}}

VenueFills(v, k) ==
    CASE v = "hyperliquid" -> HyperliquidFills(k)
      [] v = "dydx"        -> DydxFills(k)
      [] OTHER             -> GmxActions(k)

VenueFunding(v, k) ==
    CASE v = "hyperliquid" -> HyperliquidFunding(k)
      [] v = "dydx"        -> DydxFunding(k)
      [] OTHER             -> IF k = 0 THEN {<<>>} ELSE {}

----------------------------------------------------------------------------
(* useTransactions *)

\* totalCount and lastResult before any adapter call has settled
NoCount == 0 - 1

NoResult ==
    [ok |-> FALSE, transactions |-> <<>>, nextCursor |-> Undefined,
     hasMore |-> FALSE, totalCount |-> NoCount]

NoReq ==
    [kind |-> "none", chainId |-> "", address |-> "", cursor |-> Undefined,
     session |-> 0, listAtCall |-> <<>>]

NoEvent ==
    [op |-> "init", chainId |-> "", address |-> "", req |-> NoReq, ok |-> FALSE]

\* the relay has handled no request
NoProxyReq == [method |-> "none", url |-> "missing", hostname |-> <<>>, upstream |-> "none"]

NoProxyRes == [status |-> 0, fetched |-> FALSE]

ProxyIdle ==
    /\ proxyReq = NoProxyReq
    /\ proxyRes = NoProxyRes
    /\ proxyForwarded = {}

\* no HTTP exchange is under way
NoExchange == [family |-> "none"]

NoOutcome == [called |-> FALSE, ok |-> FALSE, transactions |-> <<>>, hasMore |-> FALSE,
              error |-> <<>>]

ExchangeIdle ==
    /\ exchange = NoExchange
    /\ outcome = NoOutcome

\* nothing outside the hook and its adapters has run
\* no pure function is under study
NoArgs == [fn |-> "none"]

NoReturn == [returned |-> FALSE]

PureIdle ==
    /\ args = NoArgs
    /\ ret = NoReturn

OtherIdle == ProxyIdle /\ ExchangeIdle /\ PureIdle

Init ==
    /\ OtherIdle
    /\ transactions = <<>>
    /\ loading = FALSE
    /\ error = Null
    /\ hasMore = FALSE
    /\ totalCount = NoCount
    /\ cursor = Undefined
    /\ currentChainId = ""
    /\ currentAddress = ""
    /\ inflight = <<>>
    /\ ledger = FixedLedger
    /\ calls = 0
    /\ session = 0
    /\ lastResult = NoResult
    /\ event = NoEvent
    /\ venue = "none"
    /\ perpsAddress = ""
    /\ rawFills = <<>>
    /\ rawFunding = <<>>
    /\ perpsResult = NotCalled

\* An adapter call can be issued while the model's bounds allow one more
CanCall == calls < MaxCalls /\ Len(inflight) < MaxInflight

\* fetchTransactions(chainId, address), up to its await
FetchTransactions(chainId, address) ==
    LET adapter == getAdapter(chainId) IN
    /\ event' = [op |-> "fetch", chainId |-> chainId, address |-> address,
                 req |-> NoReq, ok |-> FALSE]
    /\ UNCHANGED <<ledger, lastResult, perpsVars, otherVars>>
    /\ IF ~adapter.found
       THEN /\ error' = "Unsupported chain"
            /\ UNCHANGED <<transactions, loading, hasMore, totalCount, cursor,
                           currentChainId, currentAddress, inflight, calls, session>>
       ELSE IF ~validateAddress(adapter, address)
       THEN /\ error' = "Invalid address format"
            /\ UNCHANGED <<transactions, loading, hasMore, totalCount, cursor,
                           currentChainId, currentAddress, inflight, calls, session>>
       ELSE /\ CanCall
            /\ loading' = TRUE
            /\ error' = Null
            /\ transactions' = <<>>
            /\ cursor' = Undefined
            /\ currentChainId' = chainId
            /\ currentAddress' = address
            /\ session' = session + 1
            /\ calls' = calls + 1
            /\ inflight' = Append(inflight,
                    [kind |-> "fetch", chainId |-> chainId, address |-> address,
                     cursor |-> Undefined, session |-> session + 1,
                     listAtCall |-> transactions])
            /\ UNCHANGED <<hasMore, totalCount>>

\* the guard of loadMore: !hasMore || loading || !cursor
LoadMoreBlocked == ~hasMore \/ loading \/ cursor = Undefined \/ cursor = ""

\* loadMore(), up to its await
LoadMore ==
    /\ event' = [op |-> "loadMore", chainId |-> currentChainId,
                 address |-> currentAddress, req |-> NoReq, ok |-> FALSE]
    /\ UNCHANGED <<ledger, lastResult, perpsVars, otherVars>>
    /\ IF LoadMoreBlocked
       THEN UNCHANGED <<transactions, loading, error, hasMore, totalCount, cursor,
                        currentChainId, currentAddress, inflight, calls, session>>
       ELSE IF ~getAdapter(currentChainId).found
       THEN UNCHANGED <<transactions, loading, error, hasMore, totalCount, cursor,
                        currentChainId, currentAddress, inflight, calls, session>>
       ELSE /\ CanCall
            /\ loading' = TRUE
            /\ calls' = calls + 1
            /\ inflight' = Append(inflight,
                    [kind |-> "loadMore", chainId |-> currentChainId,
                     address |-> currentAddress, cursor |-> cursor,
                     session |-> session, listAtCall |-> transactions])
            /\ UNCHANGED <<transactions, error, hasMore, totalCount, cursor,
                           currentChainId, currentAddress, session>>

RemoveAt(seq, i) == SubSeq(seq, 1, i - 1) \o SubSeq(seq, i + 1, Len(seq))

\* what adapter.fetchTransactions(address, {cursor, limit}) resolves to
AdapterResult(req) ==
    CosmosFetchTransactions(ledger, req.address, PageLimit, req.cursor,
                            adapters[req.chainId])

\* the continuation of fetchTransactions after its await: try, catch, finally
FetchSettled(req, ok) ==
    LET result == AdapterResult(req) IN
    /\ IF ok
       THEN /\ transactions' = result.transactions
            /\ hasMore' = result.hasMore
            /\ cursor' = result.nextCursor
            /\ totalCount' = result.totalCount
            /\ UNCHANGED error
       ELSE /\ error' = "HTTP error"
            /\ UNCHANGED <<transactions, hasMore, cursor, totalCount>>
    /\ loading' = FALSE

\* LoadMoreSettled with setTransactions(result.transactions) in place of the
\* functional update
LoadMoreSettled_Replaces(req, ok) ==
    LET result == AdapterResult(req) IN
    /\ IF ok
       THEN /\ transactions' = result.transactions
            /\ hasMore' = result.hasMore
            /\ cursor' = result.nextCursor
            /\ UNCHANGED <<error, totalCount>>
       ELSE /\ error' = "HTTP error"
            /\ UNCHANGED <<transactions, hasMore, cursor, totalCount>>
    /\ loading' = FALSE

\* the continuation of loadMore after its await: try, catch, finally
LoadMoreSettled(req, ok) ==
    LET result == AdapterResult(req) IN
    /\ IF ok
       THEN /\ transactions' = transactions \o result.transactions
            /\ hasMore' = result.hasMore
            /\ cursor' = result.nextCursor
            /\ UNCHANGED <<error, totalCount>>
       ELSE /\ error' = "HTTP error"
            /\ UNCHANGED <<transactions, hasMore, cursor, totalCount>>
    /\ loading' = FALSE

\* The promise of the i-th outstanding adapter call settles
Settle(i, ok) ==
    LET req == inflight[i] IN
    /\ inflight' = RemoveAt(inflight, i)
    /\ event' = [op |-> "settle", chainId |-> req.chainId, address |-> req.address,
                 req |-> req, ok |-> ok]
    /\ lastResult' = IF ok THEN AdapterResult(req) ELSE NoResult
    /\ IF req.kind = "fetch" THEN FetchSettled(req, ok) ELSE LoadMoreSettled(req, ok)
    /\ UNCHANGED <<currentChainId, currentAddress, ledger, calls, session, perpsVars,
                   otherVars>>

Fetch == \E chainId \in ChainIds, address \in Addresses : FetchTransactions(chainId, address)

Resolve == \E i \in 1..Len(inflight) : Settle(i, TRUE)

Reject == \E i \in 1..Len(inflight) : Settle(i, FALSE)

Next == Fetch \/ LoadMore \/ Resolve \/ Reject

Spec == Init /\ [][Next]_vars

----------------------------------------------------------------------------
(* The adapters on their own: one query session paged through from its first
   page on any account the LCD can hold, and one call of a perps adapter on
   any streams the venue can return *)

HookInit ==
    /\ transactions = <<>>
    /\ loading = FALSE
    /\ error = Null
    /\ hasMore = FALSE
    /\ totalCount = NoCount
    /\ cursor = Undefined
    /\ currentChainId = ""
    /\ currentAddress = ""
    /\ inflight = <<>>
    /\ calls = 0
    /\ session = 0
    /\ lastResult = NoResult
    /\ event = NoEvent

InitCosmos ==
    /\ HookInit
    /\ ledger \in {[EmptyLedger EXCEPT !["osmoA"] = acct] : acct \in CosmosAccounts}
    /\ venue = "none"
    /\ perpsAddress = ""
    /\ rawFills = <<>>
    /\ rawFunding = <<>>
    /\ perpsResult = NotCalled
    /\ OtherIdle

InitPerps ==
    /\ HookInit
    /\ ledger = EmptyLedger
    /\ venue \in Venues
    /\ perpsAddress \in DOMAIN PerpsAddressOk
    /\ \E k \in 0..MaxEvents, m \in 0..MaxEvents :
        /\ k + m <= MaxEvents
        /\ ~PerpsAddressOk[perpsAddress] => k + m = 0
        /\ rawFills \in VenueFills(venue, k)
        /\ rawFunding \in VenueFunding(venue, m)
    /\ perpsResult = NotCalled
    /\ OtherIdle

InitAdapters == InitCosmos \/ InitPerps

\* the user fetches the account's first page
PageFetch ==
    /\ venue = "none"
    /\ calls = 0
    /\ FetchTransactions("osmosis", "osmoA")

\* the user asks for the next page once the previous one is shown
PageLoadMore ==
    /\ venue = "none"
    /\ ~LoadMoreBlocked
    /\ LoadMore

\* the adapter call of the page settles successfully
PageResolve ==
    /\ venue = "none"
    /\ Len(inflight) = 1
    /\ Settle(1, TRUE)

\* one call of the perps adapter's fetchTransactions settles
PerpsFetch ==
    /\ venue # "none"
    /\ ~perpsResult.called
    /\ perpsResult' = PerpsFetchTransactions(venue, perpsAddress, rawFills, rawFunding)
    /\ UNCHANGED <<transactions, loading, error, hasMore, totalCount, cursor,
                   currentChainId, currentAddress, inflight, ledger, calls, session,
                   lastResult, event, venue, perpsAddress, rawFills, rawFunding,
                   otherVars>>

NextAdapters == PageFetch \/ PageLoadMore \/ PageResolve \/ PerpsFetch

SpecAdapters == InitAdapters /\ [][NextAdapters]_vars

----------------------------------------------------------------------------
(* Claims about the fetch orchestrator *)

\* C1: a fetch that settles after a newer fetch has been accepted (its
\* session is no longer the current one) changes neither the accumulated
\* records nor hasMore, cursor, totalCount or error.
C1_StaleFetchDiscarded ==
    [][(/\ event'.op = "settle"
        /\ event'.req.kind = "fetch"
        /\ event'.req.session # session)
       => UNCHANGED <<transactions, hasMore, cursor, totalCount, error>>]_vars

\* C2: at most one adapter request of a session is in flight at any time.
C2_OneInFlightPerSession ==
    \A i, j \in 1..Len(inflight) :
        inflight[i].session = inflight[j].session => i = j

\* C3: loadMore changes nothing and calls no adapter when hasMore is false,
\* loading is true or no cursor is held; otherwise it issues exactly one
\* request, for the current address with the stored cursor; and when that
\* request succeeds the page is appended to the accumulated list.
C3_LoadMoreFrame ==
    [][/\ (event'.op = "loadMore" /\ LoadMoreBlocked)
            => (UNCHANGED hookState /\ inflight' = inflight /\ calls' = calls)
       /\ (event'.op = "loadMore" /\ ~LoadMoreBlocked)
            => /\ calls' = calls + 1
               /\ Len(inflight') = Len(inflight) + 1
               /\ SubSeq(inflight', 1, Len(inflight)) = inflight
               /\ inflight'[Len(inflight')].kind = "loadMore"
               /\ inflight'[Len(inflight')].cursor = cursor
               /\ inflight'[Len(inflight')].address = currentAddress
               /\ inflight'[Len(inflight')].chainId = currentChainId
               /\ UNCHANGED <<transactions, hasMore, cursor, error, totalCount>>
       /\ (event'.op = "settle" /\ event'.req.kind = "loadMore" /\ event'.ok)
            => /\ transactions' = transactions \o lastResult'.transactions
               /\ lastResult' = CosmosFetchTransactions(ledger, event'.req.address,
                                    PageLimit, event'.req.cursor,
                                    adapters[event'.req.chainId])
      ]_vars

\* C3 witness: a loadMore has succeeded and appended a non-empty page to a
\* non-empty list.
C3_Witness ==
    /\ event.op = "settle" /\ event.req.kind = "loadMore" /\ event.ok
    /\ Len(lastResult.transactions) > 0
    /\ Len(transactions) > Len(lastResult.transactions)

\* C4: fetch(chainId, address) with an unregistered chainId, or with an
\* address the chain's adapter does not validate, issues no adapter call,
\* does not touch loading, and only sets the error string.
RejectedInputs ==
    {<<c, a>> \in ChainIds \X Addresses :
        \/ c = "solana"
        \/ a = "osmoShort"
        \/ (c = "osmosis" /\ a = "cosmosA")
        \/ (c = "cosmos" /\ a \in {"osmoA", "osmoB"})}

C4_FetchFailsFast ==
    [][(event'.op = "fetch" /\ <<event'.chainId, event'.address>> \in RejectedInputs)
       => /\ calls' = calls
          /\ inflight' = inflight
          /\ loading' = loading
          /\ error' \in {"Unsupported chain", "Invalid address format"}
          /\ UNCHANGED <<transactions, hasMore, cursor, totalCount,
                         currentChainId, currentAddress>>]_vars

\* C4 witness: a malformed address has been rejected on a registered chain
\* while nothing was loading and no call had been made.
C4_Witness ==
    /\ event.op = "fetch" /\ event.chainId = "osmosis" /\ event.address = "osmoShort"
    /\ error = "Invalid address format"
    /\ ~loading /\ calls = 0

\* C5: every record of the accumulated list belongs to the chain and address
\* of the fetch accepted last.
C5_SessionRecords ==
    \A i \in 1..Len(transactions) :
        /\ transactions[i].chainId = currentChainId
        /\ transactions[i].address = currentAddress

\* C6: when an adapter call fails, the list is what it was before the call
\* (for loadMore) or empty (for a first-page fetch), an error string is set,
\* and no further adapter call is issued.
C6_FailedPageAddsNothing ==
    [][(event'.op = "settle" /\ ~event'.ok)
       => /\ (event'.req.kind = "loadMore" => transactions' = event'.req.listAtCall)
          /\ (event'.req.kind = "fetch" => transactions' = <<>>)
          /\ error' # Null
          /\ calls' = calls
          /\ Len(inflight') = Len(inflight) - 1]_vars

----------------------------------------------------------------------------
(* Claims about the adapters *)

HashSet(seq) == {seq[i].hash : i \in 1..Len(seq)}

NoDuplicateHash(seq) == \A i, j \in 1..Len(seq) : seq[i].hash = seq[j].hash => i = j

NewestFirst(seq) ==
    \A i, j \in 1..Len(seq) : i < j => seq[i].datetimeUtc >= seq[j].datetimeUtc

\* the offset of the page request that settled last
SettledOffset ==
    IF event.req.cursor = Undefined THEN 0 ELSE parseInt(event.req.cursor)

\* what the sender query and the recipient query of that request returned
SettledSent == LcdPage(ledger[event.req.address].sender, PageLimit, SettledOffset)

SettledReceived == LcdPage(ledger[event.req.address].recipient, PageLimit, SettledOffset)

RawHashSet(seq) == {seq[i].txhash : i \in 1..Len(seq)}

\* C7: the page a Cosmos-factory adapter returns holds no hash twice; its
\* records are transactions of the sender-query or recipient-query result,
\* one per distinct hash up to the page size (sender = {H1} and recipient =
\* {H1, H2} gives the two records H1 and H2).
C7_PageHasNoDuplicateHash ==
    (venue = "none" /\ event.op = "settle" /\ lastResult.ok) =>
        LET page == lastResult.transactions
            merged == RawHashSet(SettledSent) \cup RawHashSet(SettledReceived)
        IN /\ NoDuplicateHash(page)
           /\ HashSet(page) \subseteq merged
           /\ Len(page) = Min(PageLimit, Cardinality(merged))

\* C7 witness: the sender query returned H1, the recipient query H1 and H2,
\* and the page holds exactly H1 and H2.
C7_Witness ==
    /\ venue = "none" /\ event.op = "settle" /\ lastResult.ok
    /\ RawHashSet(SettledSent) = {"H1"}
    /\ RawHashSet(SettledReceived) = {"H1", "H2"}
    /\ HashSet(lastResult.transactions) = {"H1", "H2"}
    /\ Len(lastResult.transactions) = 2

\* C8: no two records of the list accumulated by fetch and loadMore on a
\* Cosmos-factory adapter, and no two records of a perps adapter's result,
\* have the same hash.
C8_HashesUnique ==
    /\ NoDuplicateHash(transactions)
    /\ perpsResult.ok => NoDuplicateHash(perpsResult.transactions)

\* C9: the page of a Cosmos-factory adapter and the result of a perps
\* adapter are in non-increasing timestamp order, and the Cosmos page holds
\* the newest of the deduplicated merge: no transaction cut off by the page
\* size is newer than one that was kept.
C9_NewestFirst ==
    /\ (venue = "none" /\ event.op = "settle" /\ lastResult.ok) =>
        LET page == lastResult.transactions
            raw == SettledSent \o SettledReceived
        IN /\ NewestFirst(page)
           /\ \A i \in 1..Len(raw), j \in 1..Len(page) :
                raw[i].txhash \notin HashSet(page)
                    => raw[i].timestamp <= page[j].datetimeUtc
    /\ perpsResult.ok => NewestFirst(perpsResult.transactions)

\* C9 witness: the recipient query returned a transaction newer than every
\* transaction of the sender query, and the merge was cut to the page size.
C9_Witness ==
    /\ venue = "none" /\ event.op = "settle" /\ lastResult.ok
    /\ Len(SettledSent) > 0 /\ Len(SettledReceived) > 0
    /\ SettledSent[1].timestamp < SettledReceived[1].timestamp
    /\ lastResult.totalCount > Len(lastResult.transactions)

\* whether the venue reported a realized-PnL field for the fill
HasPnlField(v, fill) ==
    CASE v = "hyperliquid" -> fill.hasClosedPnl
      [] v = "dydx"        -> fill.hasRealizedPnl
      [] OTHER             -> fill.hasBasePnlUsd

\* whether the fill says if it opens or closes (increases or decreases) a
\* position; a dYdX fill only carries its side
HasDirectionalHint(v, fill) ==
    CASE v = "hyperliquid" ->
            fill.hasDir /\ Len(fill.dir) > 0 /\ fill.dir[1] \in {"Open", "Close"}
      [] v = "dydx" -> FALSE
      [] OTHER ->
            /\ fill.hasEventName
            /\ \E i \in 1..Len(fill.eventName) : fill.eventName[i] \in {"Increase", "Decrease"}

\* C10: a perps adapter's fetchTransactions resolves only when every fill
\* carries a realized-PnL field or a directional hint.
C10_UnclassifiableFillRejects ==
    perpsResult.ok =>
        \A i \in 1..Len(rawFills) :
            HasPnlField(venue, rawFills[i]) \/ HasDirectionalHint(venue, rawFills[i])

----------------------------------------------------------------------------
(* The CORS relay, api/proxy.ts.  A hostname is the sequence of its labels:
   lcd.osmosis.zone is <<"lcd", "osmosis", "zone">> *)

allowedDomains ==
    {<<"lcd", "osmosis", "zone">>,
     <<"rest", "osmosis", "goldenratiostaking", "net">>,
     <<"rest", "lavenderfive", "com">>,
     <<"rest-osmosis", "ecostake", "com">>,
     <<"osmosis-api", "polkachu", "com">>,
     <<"lcd-cosmoshub", "keplr", "app">>,
     <<"cosmos-lcd", "quickapi", "com">>,
     <<"rest", "cosmos", "directory">>,
     <<"cosmos-rest", "publicnode", "com">>,
     <<"celestia-lcd", "publicnode", "com">>,
     <<"celestia-api", "polkachu", "com">>,
     <<"dydx-lcd", "publicnode", "com">>,
     <<"dydx-api", "polkachu", "com">>,
     <<"sei-lcd", "publicnode", "com">>,
     <<"sei-api", "polkachu", "com">>,
     <<"injective-lcd", "publicnode", "com">>,
     <<"injective-api", "polkachu", "com">>,
     <<"neutron-lcd", "publicnode", "com">>,
     <<"neutron-api", "polkachu", "com">>,
     <<"noble-lcd", "publicnode", "com">>,
     <<"noble-api", "polkachu", "com">>}

\* urlObj.hostname.includes(domain): domain occurs in hostname as a run of
\* consecutive labels
HostnameIncludes(hostname, domain) ==
    \E k \in 0..(Len(hostname) - Len(domain)) :
        SubSeq(hostname, k + 1, k + Len(domain)) = domain

\* allowedDomains.some(domain => urlObj.hostname.includes(domain))
isAllowed(hostname) == \E domain \in allowedDomains : HostnameIncludes(hostname, domain)

\* the hostnames of the target URLs a client can ask the relay for
TargetHostnames ==
    {<<"lcd", "osmosis", "zone">>,
     <<"rest", "cosmos", "directory">>,
     <<"noble-api", "polkachu", "com">>,
     <<"lcd", "osmosis", "zone", "evil", "com">>,
     <<"api", "rest", "cosmos", "directory">>,
     <<"osmosis", "zone">>,
     <<"polkachu", "com">>,
     <<"evil", "com">>}

\* what the upstream host does when the relay calls it: a JSON body with a
\* 2xx status, a non-2xx status, a 2xx body that is not JSON, or no answer
UpstreamOutcomes == {"ok", "404", "500", "notJson", "networkError"}

\* url: "missing" (no url query parameter), "malformed" (decodeURIComponent
\* or new URL throws) or "valid" with the hostname new URL() gives
ProxyRequests ==
    [method : {"GET", "POST", "OPTIONS"}, url : {"missing", "malformed"},
     hostname : {<<>>}, upstream : {"none"}]
    \cup [method : {"GET", "POST", "OPTIONS"}, url : {"valid"},
          hostname : TargetHostnames, upstream : UpstreamOutcomes]

StatusOf(upstream) ==
    CASE upstream = "ok" -> 200
      [] upstream = "404" -> 404
      [] upstream = "500" -> 500
      [] OTHER -> 500

\* handler(req, res): the status it answers with and whether it called fetch
handler(req) ==
    IF req.method = "OPTIONS" THEN [status |-> 200, fetched |-> FALSE]
    ELSE IF req.url = "missing" THEN [status |-> 400, fetched |-> FALSE]
    ELSE IF req.url = "malformed" THEN [status |-> 500, fetched |-> FALSE]
    ELSE IF ~isAllowed(req.hostname) THEN [status |-> 403, fetched |-> FALSE]
    ELSE [status |-> StatusOf(req.upstream), fetched |-> TRUE]

\* the relay handles one request to completion
ProxyHandle ==
    /\ \E req \in ProxyRequests :
        /\ proxyReq' = req
        /\ proxyRes' = handler(req)
        /\ proxyForwarded' = IF handler(req).fetched
                             THEN proxyForwarded \cup {req.hostname}
                             ELSE proxyForwarded
    /\ UNCHANGED <<coreVars, exchangeVars, pureVars>>

InitProxy == Init

NextProxy == ProxyHandle

SpecProxy == InitProxy /\ [][NextProxy]_vars

\* C11: the relay answers a GET or POST whose target hostname is not one of
\* the allow-listed hosts with 403, and never calls fetch on such a host.
C11_OnlyAllowListedForwarded ==
    /\ proxyForwarded \subseteq allowedDomains
    /\ (proxyReq.method \in {"GET", "POST"} /\ proxyReq.url = "valid"
        /\ proxyReq.hostname \notin allowedDomains) => proxyRes.status = 403

----------------------------------------------------------------------------
(* One adapter call against the remote API: what each adapter family makes of
   the HTTP responses it gets.  A response is
     kind "networkError"  fetch() rejects
     kind "httpError"     response.ok is false
     kind "notJson"       response.json() rejects
     kind "json"          a parsed body: hasList says whether the body has
                          the field the adapter reads its records from
                          (tx_responses, items, result, data.transfers,
                          data), items is that list
   A message is the sequence of its words. *)

MaxEndpoints == 2

RawItems == {<<>>, <<RawTx("T1", 1)>>, <<RawTx("T2", 2), RawTx("T1", 1)>>}

Response(kind, hasList, items, status, message, code) ==
    [kind |-> kind, hasList |-> hasList, items |-> items, status |-> status,
     message |-> message, code |-> code]

FailedResponses ==
    {Response(k, FALSE, <<>>, "", <<>>, 0) : k \in {"networkError", "httpError", "notJson"}}

\* a body with the record list, and a body without it (an error body such as
\* {code: 3, message: "...", details: []} or any other object)
ListBodies == {Response("json", TRUE, items, "", <<>>, 0) : items \in RawItems}

ErrorBody == Response("json", FALSE, <<>>, "", <<"query", "failed">>, 3)

LcdResponses == FailedResponses \cup ListBodies \cup {ErrorBody}

NoTransactionsFound == <<"No", "transactions", "found">>

\* etherscan-style bodies: status "1" with records, or status "0" with a
\* message and an empty or absent result
EtherscanMessages ==
    {NoTransactionsFound, <<"NOTOK">>, <<"Max", "rate", "limit", "reached">>,
     <<"Rate", "Limit", "Exceeded">>, <<>>}

EtherscanResponses ==
    FailedResponses
    \cup {Response("json", TRUE, items, "1", <<"OK">>, 0) : items \in RawItems \ {<<>>}}
    \cup {Response("json", hasList, <<>>, "0", m, 0) :
             hasList \in BOOLEAN, m \in EtherscanMessages}

BlockscoutResponses == FailedResponses \cup ListBodies \cup {ErrorBody}

\* Subscan envelopes: code 0 with data, or a non-zero code with a message
SubscanResponses ==
    FailedResponses \cup ListBodies
    \cup {Response("json", FALSE, <<>>, "", <<>>, 0)}
    \cup {Response("json", hasList, <<>>, "", m, 10004) :
             hasList \in BOOLEAN, m \in {<<"Record", "Not", "Found">>, <<>>}}

VoyagerResponses == FailedResponses \cup ListBodies \cup {ErrorBody}

SeqsOfLen(S, n) == [1..n -> S]

\* everything the remote side can answer to one call of one adapter
Exchanges ==
    {[family |-> "cosmos", sender |-> a, recipient |-> b] :
        a \in SeqsOfLen(LcdResponses, MaxEndpoints),
        b \in SeqsOfLen(LcdResponses, MaxEndpoints)}
    \cup {[family |-> "etherscan", response |-> r] : r \in EtherscanResponses}
    \cup {[family |-> "blockscout", response |-> r] : r \in BlockscoutResponses}
    \cup {[family |-> "substrate", response |-> r] : r \in SubscanResponses}
    \cup {[family |-> "extended", voyager |-> v, starkscan |-> k] :
        v \in VoyagerResponses, k \in VoyagerResponses}

Resolved(txs, more) ==
    [called |-> TRUE, ok |-> TRUE, transactions |-> txs, hasMore |-> more, error |-> <<>>]

Rejected(message) ==
    [called |-> TRUE, ok |-> FALSE, transactions |-> <<>>, hasMore |-> FALSE,
     error |-> message]

\* the Error a failed response raises in the adapter that awaits it
ErrorOf(r, httpMessage) ==
    CASE r.kind = "networkError" -> <<"Failed to fetch">>
      [] r.kind = "httpError" -> httpMessage
      [] r.kind = "notJson" -> <<"Unexpected token in JSON">>
      [] OTHER -> <<>>

\* data.<list> || []
ListOrEmpty(r) == IF r.hasList THEN r.items ELSE <<>>

HashOnly(items) == [i \in 1..Len(items) |-> [hash |-> items[i].txhash,
                                             datetimeUtc |-> items[i].timestamp]]

\* fetchTxsFromLCD: the endpoints are tried in order; the first one that
\* answers with JSON wins, and when none does the last error is thrown
RECURSIVE LcdTry(_, _)
LcdTry(responses, lastError) ==
    IF responses = <<>>
    THEN [thrown |-> TRUE, txs |-> <<>>,
          error |-> IF lastError = <<>> THEN <<"All LCD endpoints failed">> ELSE lastError]
    ELSE LET r == Head(responses) IN
         IF r.kind = "json"
         THEN [thrown |-> FALSE, txs |-> HashOnly(ListOrEmpty(r)), error |-> <<>>]
         ELSE LcdTry(Tail(responses), ErrorOf(r, <<"HTTP 500">>))

\* createCosmosAdapter.fetchTransactions: Promise.all rejects with the error
\* of whichever query failed first
CosmosOutcomes(x) ==
    LET sent == LcdTry(x.sender, <<>>)
        received == LcdTry(x.recipient, <<>>)
        uniqueTxs == SortByTimeDesc(DedupByHash(sent.txs \o received.txs))
    IN IF sent.thrown \/ received.thrown
       THEN {Rejected(q.error) : q \in {q \in {sent, received} : q.thrown}}
       ELSE {Resolved(SubSeq(uniqueTxs, 1, Min(PageLimit, Len(uniqueTxs))),
                      Len(uniqueTxs) >= PageLimit)}

\* data.message?.includes('rate limit')
MessageIncludes(message, words) ==
    \E k \in 0..(Len(message) - Len(words)) :
        SubSeq(message, k + 1, k + Len(words)) = words

RateLimitMessage == <<"API rate limit exceeded. Please try again later.">>

\* fetchEtherscan without the 'No transactions found' exemption
EtherscanOutcome_NoEmptyCase(r) ==
    IF r.kind # "json" THEN Rejected(ErrorOf(r, <<"API error: 500">>))
    ELSE IF r.status # "1"
    THEN IF MessageIncludes(r.message, <<"rate", "limit">>)
         THEN Rejected(RateLimitMessage)
         ELSE Rejected(IF r.message # <<>> THEN r.message ELSE <<"API error">>)
    ELSE LET txs == HashOnly(ListOrEmpty(r))
         IN Resolved(txs, Len(txs) = PageLimit)

\* fetchEtherscan
EtherscanOutcome(r) ==
    IF r.kind # "json" THEN Rejected(ErrorOf(r, <<"API error: 500">>))
    ELSE IF r.status # "1" /\ r.message # NoTransactionsFound
    THEN IF MessageIncludes(r.message, <<"rate", "limit">>)
         THEN Rejected(RateLimitMessage)
         ELSE Rejected(IF r.message # <<>> THEN r.message ELSE <<"API error">>)
    ELSE LET txs == HashOnly(ListOrEmpty(r))
         IN Resolved(txs, Len(txs) = PageLimit)

\* fetchBlockscout (hasMore is !!data.next_page_params, absent here)
BlockscoutOutcome(r) ==
    IF r.kind # "json" THEN Rejected(ErrorOf(r, <<"API error: 500">>))
    ELSE Resolved(HashOnly(ListOrEmpty(r)), FALSE)

\* createSubstrateAdapter.fetchTransactions (count is the length of the list)
SubstrateOutcome(r) ==
    IF r.kind # "json" THEN Rejected(ErrorOf(r, <<"Subscan API error: 500">>))
    ELSE IF r.code # 0
    THEN Rejected(IF r.message # <<>> THEN r.message ELSE <<"Subscan API error">>)
    ELSE Resolved(HashOnly(ListOrEmpty(r)), FALSE)

\* ExtendedAdapter.fetchFromStarkScan: every failure is caught and becomes []
fetchFromStarkScan(k) ==
    IF k.kind = "json" THEN HashOnly(ListOrEmpty(k)) ELSE <<>>

\* ExtendedAdapter.fetchFromVoyager and fetchTransactions: a non-2xx answer
\* of Voyager falls back to StarkScan; its other failures are thrown
ExtendedOutcome(x) ==
    LET v == x.voyager IN
    IF v.kind \in {"networkError", "notJson"} THEN Rejected(ErrorOf(v, <<>>))
    ELSE LET txs == IF v.kind = "httpError" THEN fetchFromStarkScan(x.starkscan)
                    ELSE HashOnly(ListOrEmpty(v))
         IN Resolved(txs, Len(txs) >= PageLimit)

AdapterOutcomes(x) ==
    CASE x.family = "cosmos" -> CosmosOutcomes(x)
      [] x.family = "etherscan" -> {EtherscanOutcome(x.response)}
      [] x.family = "blockscout" -> {BlockscoutOutcome(x.response)}
      [] x.family = "substrate" -> {SubstrateOutcome(x.response)}
      [] x.family = "extended" -> {ExtendedOutcome(x)}

\* useTransactions' catch: err instanceof Error ? err.message : 'Failed to
\* fetch transactions'; every value the adapters throw is an Error
hookErrorString(o) == IF o.ok THEN Null ELSE o.error[1]

InitResponses ==
    /\ HookInit
    /\ ledger = EmptyLedger
    /\ venue = "none"
    /\ perpsAddress = ""
    /\ rawFills = <<>>
    /\ rawFunding = <<>>
    /\ perpsResult = NotCalled
    /\ ProxyIdle
    /\ PureIdle
    /\ exchange \in Exchanges
    /\ outcome = NoOutcome

\* the adapter's fetchTransactions settles
AdapterCall ==
    /\ exchange.family # "none"
    /\ ~outcome.called
    /\ outcome' \in AdapterOutcomes(exchange)
    /\ UNCHANGED <<coreVars, proxyVars, exchange, pureVars>>

NextResponses == AdapterCall

SpecResponses == InitResponses /\ [][NextResponses]_vars

----------------------------------------------------------------------------
(* Claims about failure handling *)

\* a response that carries no usable page: no answer, a non-2xx status, a
\* body that is not JSON, or a JSON body without the record list
Unusable(r) == r.kind # "json" \/ ~r.hasList

AllUnusable(responses) == \A i \in 1..Len(responses) : Unusable(responses[i])

\* the adapter call failed as a whole: no endpoint or fallback it can turn to
\* gave a usable answer
ExchangeFailed(x) ==
    CASE x.family = "cosmos" -> AllUnusable(x.sender) \/ AllUnusable(x.recipient)
      [] x.family = "etherscan" ->
            \/ x.response.kind # "json"
            \/ (x.response.status # "1" /\ x.response.message # NoTransactionsFound)
      [] x.family = "blockscout" -> Unusable(x.response)
      [] x.family = "substrate" -> x.response.kind # "json" \/ x.response.code # 0
      [] x.family = "extended" ->
            /\ Unusable(x.voyager)
            /\ (x.voyager.kind = "httpError" => Unusable(x.starkscan))
      [] OTHER -> FALSE

\* C12: when the adapter call fails as a whole (network error, non-2xx
\* status or malformed payload on every route the adapter has), its
\* fetchTransactions rejects with an error whose message the orchestrator
\* shows; it does not resolve, in particular not with an empty list.
C12_FailureRejects ==
    (outcome.called /\ ExchangeFailed(exchange)) =>
        /\ ~outcome.ok
        /\ outcome.error # <<>>
        /\ hookErrorString(outcome) # Null

\* the response a Cosmos query ends up using: the first JSON body
RECURSIVE FirstJson(_)
FirstJson(responses) ==
    IF responses = <<>> THEN Response("none", FALSE, <<>>, "", <<>>, 0)
    ELSE IF Head(responses).kind = "json" THEN Head(responses)
    ELSE FirstJson(Tail(responses))

IsErrorBody(r) == r.kind = "json" /\ ~r.hasList

\* C13: an HTTP-200 answer that carries an application-level failure makes
\* the call reject: a Subscan envelope with code # 0, and a Cosmos LCD error
\* body (no tx_responses) taken as the answer of the sender or the recipient
\* query.
C13_ApplicationFailureRejects ==
    outcome.called =>
        /\ (exchange.family = "substrate" /\ exchange.response.kind = "json"
            /\ exchange.response.code # 0) => ~outcome.ok
        /\ (exchange.family = "cosmos"
            /\ (IsErrorBody(FirstJson(exchange.sender))
                \/ IsErrorBody(FirstJson(exchange.recipient)))) => ~outcome.ok

----------------------------------------------------------------------------
(* Direction of a record: how each adapter family derives direction and
   counterparty from the sender and recipient the source API names.  An
   absent or null field is "" (the adapters read it with  || ''). *)

\* String.prototype.toLowerCase on the addresses used here
toLowerCase ==
    [a \in {"0xAB", "0xab", "0xCD", "0xcd", ""} |->
        CASE a = "0xAB" -> "0xab"
          [] a = "0xCD" -> "0xcd"
          [] OTHER -> a]

SourceAddresses == DOMAIN toLowerCase

QueriedAddresses == {"0xAB", "0xab"}

\* fetchBlockscout / fetchEtherscan: isSelf, isIncoming
EvmDirection(address, from, to) ==
    LET fromAddr == toLowerCase[from]
        toAddr == toLowerCase[to]
        addrLower == toLowerCase[address]
        isIncoming == toAddr = addrLower
        isSelf == fromAddr = toAddr
    IN [direction |-> IF isSelf THEN "self" ELSE IF isIncoming THEN "in" ELSE "out",
        counterparty |-> IF isIncoming THEN fromAddr ELSE toAddr]

\* createSubstrateAdapter.fetchTransactions: isIncoming only
SubstrateDirection(address, from, to) ==
    LET isIncoming == to # "" /\ toLowerCase[to] = toLowerCase[address]
    IN [direction |-> IF isIncoming THEN "in" ELSE "out",
        counterparty |-> IF isIncoming THEN from ELSE to]

\* ExtendedAdapter.determineDirection: contract_address against the address
ExtendedDirection(address, contractAddress) ==
    [direction |-> IF toLowerCase[contractAddress] = toLowerCase[address]
                   THEN "out" ELSE "unknown",
     counterparty |-> contractAddress]

\* the '@type' values told apart by parseMessage, in the order it tests them
CosmosMsgTypes ==
    {"MsgSend", "MsgTransfer", "MsgSwapExactAmountIn", "MsgDelegate", "MsgUndelegate",
     "MsgBeginRedelegate", "MsgWithdrawDelegatorReward", "MsgJoinPool", "MsgExitPool",
     "MsgVote", "MsgExecuteContract", "MsgGrant", ""}

\* parseMessage: MsgSend reads from_address / to_address, MsgTransfer reads
\* sender / receiver, every other type has a fixed direction
parseMessage(msgType, address, from, to) ==
    LET addrLower == toLowerCase[address]
        isOutgoing == toLowerCase[from] = addrLower
        isSelf == toLowerCase[from] = toLowerCase[to]
    IN CASE msgType = "MsgSend" ->
              [direction |-> IF isSelf THEN "self" ELSE IF isOutgoing THEN "out" ELSE "in",
               counterparty |-> IF isOutgoing THEN to ELSE from]
         [] msgType = "MsgTransfer" ->
              [direction |-> IF isOutgoing THEN "out" ELSE "in",
               counterparty |-> IF isOutgoing THEN to ELSE from]
         [] msgType = "MsgSwapExactAmountIn" -> [direction |-> "out", counterparty |-> "DEX"]
         [] msgType = "MsgDelegate" -> [direction |-> "out", counterparty |-> "Validator"]
         [] msgType = "MsgUndelegate" -> [direction |-> "in", counterparty |-> "Validator"]
         [] msgType = "MsgBeginRedelegate" -> [direction |-> "self", counterparty |-> "Validator"]
         [] msgType = "MsgWithdrawDelegatorReward" ->
              [direction |-> "in", counterparty |-> "Staking Rewards"]
         [] msgType = "MsgJoinPool" -> [direction |-> "out", counterparty |-> "Pool"]
         [] msgType = "MsgExitPool" -> [direction |-> "in", counterparty |-> "Pool"]
         [] msgType = "MsgVote" -> [direction |-> "self", counterparty |-> "Governance"]
         [] msgType = "MsgExecuteContract" ->
              [direction |-> "out", counterparty |-> "Smart Contract"]
         [] OTHER -> [direction |-> "unknown", counterparty |-> ""]

\* the source transactions an adapter can be given for a queried address:
\* from / to are the sender and recipient the source names ("" when it
\* names none); a Cosmos message other than MsgSend / MsgTransfer names none
DirectionArgs ==
    {[fn |-> "direction", family |-> f, msgType |-> "", address |-> a, from |-> x, to |-> y] :
        f \in {"blockscout", "etherscan", "substrate"},
        a \in QueriedAddresses, x \in SourceAddresses, y \in SourceAddresses}
    \cup {[fn |-> "direction", family |-> "extended", msgType |-> "", address |-> a,
           from |-> x, to |-> ""] :
        a \in QueriedAddresses, x \in SourceAddresses}
    \cup {[fn |-> "direction", family |-> "cosmos", msgType |-> m, address |-> a,
           from |-> x, to |-> y] :
        m \in {"MsgSend", "MsgTransfer"},
        a \in QueriedAddresses, x \in SourceAddresses, y \in SourceAddresses}
    \cup {[fn |-> "direction", family |-> "cosmos", msgType |-> m, address |-> a,
           from |-> "", to |-> ""] :
        m \in CosmosMsgTypes \ {"MsgSend", "MsgTransfer"}, a \in QueriedAddresses}

DirectionOf(x) ==
    CASE x.family \in {"blockscout", "etherscan"} -> EvmDirection(x.address, x.from, x.to)
      [] x.family = "substrate" -> SubstrateDirection(x.address, x.from, x.to)
      [] x.family = "extended" -> ExtendedDirection(x.address, x.from)
      [] x.family = "cosmos" -> parseMessage(x.msgType, x.address, x.from, x.to)

PureInit ==
    /\ HookInit
    /\ ledger = EmptyLedger
    /\ venue = "none"
    /\ perpsAddress = ""
    /\ rawFills = <<>>
    /\ rawFunding = <<>>
    /\ perpsResult = NotCalled
    /\ ProxyIdle
    /\ ExchangeIdle
    /\ ret = NoReturn

InitDirections == PureInit /\ args \in DirectionArgs

\* the adapter maps the source transaction to a record
Normalize ==
    /\ args.fn = "direction"
    /\ ~ret.returned
    /\ ret' = [returned |-> TRUE] @@ DirectionOf(args)
    /\ UNCHANGED <<coreVars, proxyVars, exchangeVars, args>>

NextDirections == Normalize

SpecDirections == InitDirections /\ [][NextDirections]_vars

\* C15: a record with direction self has a sender and a recipient, and they
\* are the same address up to letter case.
C15_SelfMeansSameParty ==
    (ret.returned /\ args.fn = "direction" /\ ret.direction = "self") =>
        /\ args.from # "" /\ args.to # ""
        /\ toLowerCase[args.from] = toLowerCase[args.to]

\* C16: a record of a source transaction that names its parties has
\* direction out only when the source names the queried address as the
\* sender (for the Extended adapter: as the contract_address of the
\* transaction); Cosmos messages other than MsgSend / MsgTransfer, whose
\* direction is fixed by the message type, are left aside.
C16_OutOnlyForSender ==
    (ret.returned /\ args.fn = "direction" /\ ret.direction = "out"
     /\ ~(args.family = "cosmos" /\ args.msgType \notin {"MsgSend", "MsgTransfer"})) =>
        /\ args.from # ""
        /\ toLowerCase[args.from] = toLowerCase[args.address]

----------------------------------------------------------------------------
(* Amount formatting.  A string is the sequence of its characters; a
   base-unit amount is a string of decimal digits without leading zeros.
   BigInt division and remainder by 10^decimals cut the digit string;
   parseFloat / toFixed round it. *)

MaxDigits == 3
MaxZeros == 18

Decimals == {0, 6, 9, 10, 12, 18}

DigitChars == <<"0", "1", "2", "3", "4", "5", "6", "7", "8", "9">>

\* the numeric value of a digit character
DigitValue(c) == CHOOSE v \in 0..9 : DigitChars[v + 1] = c

Zeros(k) == [i \in 1..k |-> "0"]

\* s without its leading zeros ("0" for a string of zeros): BigInt.toString
Canonical(s) ==
    LET nz == {i \in 1..Len(s) : s[i] # "0"}
    IN IF nz = {} THEN <<"0">>
       ELSE SubSeq(s, CHOOSE i \in nz : \A j \in nz : i <= j, Len(s))

\* value / divisor and value % divisor for divisor = 10^decimals
IntPart(n, decimals) ==
    IF Len(n) > decimals THEN SubSeq(n, 1, Len(n) - decimals) ELSE <<"0">>

\* the fractional digits, decimals of them: fracPart.toString().padStart(decimals, '0')
\* (for decimals = 0 the remainder is 0 and prints as "0")
FracPadded(n, decimals) ==
    IF decimals = 0 THEN <<"0">>
    ELSE IF Len(n) >= decimals THEN SubSeq(n, Len(n) - decimals + 1, Len(n))
    ELSE Zeros(decimals - Len(n)) \o n

\* String.prototype.slice(0, 8)
Slice8(s) == SubSeq(s, 1, Min(8, Len(s)))

\* s.replace(/\.?0+$/, ''): the trailing run of zeros goes, and the dot in
\* front of it when there is one; a string that does not end in 0 is kept
StripTrailingZeros(s) ==
    LET keep == {i \in 0..Len(s) : \A j \in (i + 1)..Len(s) : s[j] = "0"}
        cut == CHOOSE i \in keep : \A j \in keep : i <= j
    IN IF cut = Len(s) THEN s
       ELSE IF cut > 0 /\ s[cut] = "." THEN SubSeq(s, 1, cut - 1)
       ELSE SubSeq(s, 1, cut)

\* result || '0'
OrZero(s) == IF s = <<>> THEN <<"0">> ELSE s

\* formatWei of evm-factory.ts and formatAmount of the Substrate factory
formatWei(wei, decimals) ==
    IF wei = <<>> \/ wei = <<"0">> THEN <<"0">>
    ELSE LET intPart == IntPart(wei, decimals)
             fracStr == Slice8(FracPadded(wei, decimals))
         IN OrZero(StripTrailingZeros(intPart \o <<".">> \o fracStr))

\* the digit string plus one
RECURSIVE Increment(_)
Increment(s) ==
    IF s = <<>> THEN <<"1">>
    ELSE LET last == s[Len(s)]
             front == SubSeq(s, 1, Len(s) - 1)
         IN IF last = "9" THEN Increment(front) \o <<"0">>
            ELSE front \o <<DigitChars[DigitValue(last) + 2]>>

\* Number.prototype.toFixed(digits) of n / 10^decimals with digits =
\* min(decimals, 8): the value rounded to that many fractional digits.  A
\* value exactly half way between two results is rounded by its binary
\* representation, which can fall on either side.  (The loss of precision
\* of parseFloat above 2^53 is left out: the amounts below keep at most
\* MaxDigits significant digits.)
toFixedOutcomes(n, decimals) ==
    LET digits == Min(decimals, 8)
        whole == IntPart(n, decimals)
        frac == IF decimals = 0 THEN <<>> ELSE FracPadded(n, decimals)
        kept == whole \o SubSeq(frac, 1, digits)
        dropped == SubSeq(frac, digits + 1, Len(frac))
        half == dropped # <<>> /\ dropped[1] = "5"
                /\ \A i \in 2..Len(dropped) : dropped[i] = "0"
        up == dropped # <<>> /\ DigitValue(dropped[1]) >= 5 /\ ~half
        Show(k) == LET c == IF Len(k) > Len(kept) THEN k
                            ELSE Zeros(Len(kept) - Len(k)) \o k
                       w == Canonical(SubSeq(c, 1, Len(c) - digits))
                       f == SubSeq(c, Len(c) - digits + 1, Len(c))
                   IN IF digits = 0 THEN w ELSE w \o <<".">> \o f
    IN IF half THEN {Show(kept), Show(Increment(kept))}
       ELSE IF up THEN {Show(Increment(kept))}
       ELSE {Show(kept)}

\* formatAmount of cosmos-factory.ts
cosmosFormatAmount(amount, decimals) ==
    IF amount = <<>> \/ amount = <<"0">> THEN {<<"0">>}
    ELSE {OrZero(StripTrailingZeros(s)) : s \in toFixedOutcomes(amount, decimals)}

\* base-unit amounts: a few significant digits followed by zeros
Mantissas ==
    UNION {{m \in [1..k -> {"0", "1", "5", "9"}] : m[1] # "0"} : k \in 1..MaxDigits}

BaseUnitAmounts ==
    {<<"0">>} \cup {m \o Zeros(k) : m \in Mantissas, k \in 0..MaxZeros}

FormatArgs ==
    [fn : {"format"}, family : {"evm", "substrate", "cosmos"},
     amount : BaseUnitAmounts, decimals : Decimals]

FormatOutcomes(x) ==
    IF x.family = "cosmos" THEN cosmosFormatAmount(x.amount, x.decimals)
    ELSE {formatWei(x.amount, x.decimals)}

InitFormat == PureInit /\ args \in FormatArgs

\* the formatter returns
Format ==
    /\ args.fn = "format"
    /\ ~ret.returned
    /\ \E s \in FormatOutcomes(args) : ret' = [returned |-> TRUE, text |-> s]
    /\ UNCHANGED <<coreVars, proxyVars, exchangeVars, args>>

NextFormat == Format

SpecFormat == InitFormat /\ [][NextFormat]_vars

\* n / 10^d written out with the fraction cut to 8 digits: the whole part,
\* then, when the kept fraction is not zero, a dot and the kept fraction
\* without its trailing zeros
TruncatedDecimal(n, d) ==
    LET whole == IF Len(n) > d THEN SubSeq(n, 1, Len(n) - d) ELSE <<"0">>
        allFrac == IF Len(n) >= d THEN SubSeq(n, Len(n) - d + 1, Len(n))
                   ELSE Zeros(d - Len(n)) \o n
        frac8 == SubSeq(allFrac, 1, Min(8, d))
        nonzero == {i \in 1..Len(frac8) : frac8[i] # "0"}
        lastNonzero == CHOOSE i \in nonzero : \A j \in nonzero : j <= i
    IN IF nonzero = {} THEN whole
       ELSE whole \o <<".">> \o SubSeq(frac8, 1, lastNonzero)

\* C17: each formatter returns n / 10^d with the fraction truncated to at
\* most 8 digits, trailing zeros and a trailing dot stripped, '0' for zero.
C17_FormatTruncates ==
    (ret.returned /\ args.fn = "format") =>
        ret.text = TruncatedDecimal(args.amount, args.decimals)

----------------------------------------------------------------------------
(* BasePerpsAdapter.createTransaction on its own: any tag, and any signed
   pnl, amount and fee a perps adapter can pass to it *)

PerpsTags == {"open_position", "close_position", "funding_payment"}

SignedAmounts == {0 - 25, 0 - 5, 0, 5, 25}

CreateTransactionArgs ==
    [fn : {"createTransaction"}, venue : Venues, tag : PerpsTags,
     pnl : SignedAmounts \cup {NaN}, amount : SignedAmounts, fee : SignedAmounts]

InitPerpsRecord == PureInit /\ args \in CreateTransactionArgs

\* the adapter builds the record
CreateTransaction ==
    /\ args.fn = "createTransaction"
    /\ ~ret.returned
    /\ ret' = [returned |-> TRUE,
               tx |-> createTransaction(PerpsConfig[args.venue],
                        [hash |-> "0xa-1", timestampMs |-> 1, address |-> "0xA", asset |-> "BTC",
                         tag |-> args.tag, pnl |-> args.pnl, amount |-> args.amount,
                         fee |-> args.fee])]
    /\ UNCHANGED <<coreVars, proxyVars, exchangeVars, args>>

NextPerpsRecord == CreateTransaction

SpecPerpsRecord == InitPerpsRecord /\ [][NextPerpsRecord]_vars

\* C18: the direction of a perps record follows from its tag and the pnl it
\* was built with: open_position gives out, close_position and
\* funding_payment give in when pnl >= 0 and out otherwise; amount and fee
\* are stored as non-negative magnitudes of the inputs.
C18_PerpsDirectionAndMagnitudes ==
    (ret.returned /\ args.fn = "createTransaction") =>
        LET pnlGe0 == args.pnl # NaN /\ args.pnl >= 0
            magnitude(n) == IF n < 0 THEN 0 - n ELSE n
        IN /\ args.tag = "open_position" => ret.tx.direction = "out"
           /\ args.tag \in {"close_position", "funding_payment"} =>
                 ret.tx.direction = (IF pnlGe0 THEN "in" ELSE "out")
           /\ ret.tx.amount >= 0 /\ ret.tx.fee >= 0
           /\ ret.tx.amount = (magnitude(args.amount) \div 10) * 10
           /\ ret.tx.fee = (magnitude(args.fee) \div 10) * 10

\* C18 witness: a close with a loss, built from a negative amount and a
\* negative fee, is an out record with positive amount and fee.
C18_Witness ==
    /\ ret.returned /\ args.fn = "createTransaction"
    /\ args.tag = "close_position" /\ args.pnl < 0 /\ args.pnl # NaN
    /\ args.amount = 0 - 25 /\ args.fee = 0 - 25
    /\ ret.tx.direction = "out" /\ ret.tx.amount = 20 /\ ret.tx.fee = 20

----------------------------------------------------------------------------
(* utils/filters.ts: applyFilters and sortTransactions.  Texts are sequences
   of characters, dates are integers on the time line 1..MaxTs, an unset
   date bound (null) is NoDate, an unset text filter is the empty text. *)

MaxRecords == 2

NoDate == 0

LowerChar ==
    [c \in {"A", "B", "a", "b", "c", "h", "1", "2", "3"} |->
        CASE c = "A" -> "a"
          [] c = "B" -> "b"
          [] OTHER -> c]

\* String.prototype.toLowerCase, character by character
lowerText(s) == [i \in 1..Len(s) |-> LowerChar[s[i]]]

\* String.prototype.includes
TextIncludes(text, part) ==
    \E k \in 0..(Len(text) - Len(part)) : SubSeq(text, k + 1, k + Len(part)) = part

\* the records a result list can hold: three kinds of record at every time
RecordKinds ==
    {[direction |-> "in", type |-> "transfer", asset |-> <<"A", "b">>, hash |-> <<"h", "1">>,
      counterparty |-> <<"c", "A", "B">>, notes |-> <<>>, amount |-> 5, fee |-> 1],
     [direction |-> "out", type |-> "swap", asset |-> <<"c">>, hash |-> <<"h", "2">>,
      counterparty |-> <<>>, notes |-> <<"a", "b">>, amount |-> 5, fee |-> 2],
     [direction |-> "self", type |-> "transfer", asset |-> <<"c">>, hash |-> <<"h", "3">>,
      counterparty |-> <<>>, notes |-> <<>>, amount |-> 2, fee |-> 1]}

Records == {[datetimeUtc |-> t] @@ k : t \in 1..MaxTs, k \in RecordKinds}

RecordLists == UNION {[1..n -> Records] : n \in 0..MaxRecords}

FilterStates ==
    [start : {NoDate} \cup (1..MaxTs), end : {NoDate} \cup (1..MaxTs),
     direction : {"all", "in"}, type : {"", "transfer"},
     asset : {<<>>, <<"a", "B">>}, search : {<<>>, <<"A", "b">>}]

\* the callback of transactions.filter in applyFilters
PassesFilters(tx, filters) ==
    /\ ~(filters.start # NoDate /\ tx.datetimeUtc < filters.start)
    /\ ~(filters.end # NoDate /\ tx.datetimeUtc > filters.end)
    /\ ~(filters.direction # "all" /\ tx.direction # filters.direction)
    /\ ~(filters.type # "" /\ tx.type # filters.type)
    /\ ~(filters.asset # <<>> /\ lowerText(tx.asset) # lowerText(filters.asset))
    /\ (filters.search # <<>> =>
          LET searchLower == lowerText(filters.search)
          IN \/ TextIncludes(lowerText(tx.hash), searchLower)
             \/ TextIncludes(lowerText(tx.counterparty), searchLower)
             \/ TextIncludes(lowerText(tx.notes), searchLower)
             \/ TextIncludes(lowerText(tx.asset), searchLower))

\* Array.prototype.filter
RECURSIVE FilterSeq(_, _)
FilterSeq(seq, filters) ==
    IF seq = <<>> THEN <<>>
    ELSE IF PassesFilters(Head(seq), filters)
         THEN <<Head(seq)>> \o FilterSeq(Tail(seq), filters)
         ELSE FilterSeq(Tail(seq), filters)

\* applyFilters with the end bound exclusive
applyFilters_ExclusiveEnd(txs, filters) ==
    FilterSeq(SelectSeq(txs, LAMBDA tx : ~(filters.end # NoDate /\ tx.datetimeUtc = filters.end)),
              filters)

applyFilters(txs, filters) == FilterSeq(txs, filters)

\* a.type.localeCompare(b.type), a.asset.localeCompare(b.asset): the order
\* of the texts used here
TypeRank(type) == IF type = "swap" THEN 1 ELSE 2

AssetRank(asset) == IF lowerText(asset) = <<"a", "b">> THEN 1 ELSE 2

\* the comparator of sortTransactions
comparison(a, b, sortBy) ==
    CASE sortBy = "date" -> a.datetimeUtc - b.datetimeUtc
      [] sortBy = "amount" -> a.amount - b.amount
      [] sortBy = "fee" -> a.fee - b.fee
      [] sortBy = "type" -> TypeRank(a.type) - TypeRank(b.type)
      [] sortBy = "asset" -> AssetRank(a.asset) - AssetRank(b.asset)
      [] OTHER -> 0

compare(a, b, sortBy, sortOrder) ==
    IF sortOrder = "asc" THEN comparison(a, b, sortBy) ELSE 0 - comparison(a, b, sortBy)

\* Array.prototype.sort is stable: an element goes behind every element
\* that does not compare greater than it
RECURSIVE InsertSorted(_, _, _, _)
InsertSorted(sorted, x, sortBy, sortOrder) ==
    IF sorted = <<>> THEN <<x>>
    ELSE IF compare(Head(sorted), x, sortBy, sortOrder) <= 0
         THEN <<Head(sorted)>> \o InsertSorted(Tail(sorted), x, sortBy, sortOrder)
         ELSE <<x>> \o sorted

RECURSIVE StableSort(_, _, _)
StableSort(seq, sortBy, sortOrder) ==
    IF seq = <<>> THEN <<>>
    ELSE InsertSorted(StableSort(SubSeq(seq, 1, Len(seq) - 1), sortBy, sortOrder),
                      seq[Len(seq)], sortBy, sortOrder)

\* sortTransactions sorting the array it was given, without the copy
sortTransactions_InPlace(txs, sortBy, sortOrder) ==
    [output |-> StableSort(txs, sortBy, sortOrder),
     input |-> StableSort(txs, sortBy, sortOrder)]

\* sortTransactions: [...transactions].sort(...); output is the array it
\* returns, input the caller's array after the call
sortTransactions(txs, sortBy, sortOrder) ==
    [output |-> StableSort(txs, sortBy, sortOrder), input |-> txs]

SortKeys == {"date", "amount", "fee", "type", "asset", "hash", ""}

FilterArgs ==
    [fn : {"applyFilters"}, transactions : RecordLists, filters : FilterStates]

SortArgs ==
    [fn : {"sortTransactions"}, transactions : RecordLists, sortBy : SortKeys,
     sortOrder : {"asc", "desc"}]

InitFilters == PureInit /\ args \in FilterArgs \cup SortArgs

\* applyFilters on the list, and applyFilters again on what it returned
ApplyFilters ==
    /\ args.fn = "applyFilters"
    /\ ~ret.returned
    /\ ret' = [returned |-> TRUE,
               once |-> applyFilters(args.transactions, args.filters),
               twice |-> applyFilters(applyFilters(args.transactions, args.filters),
                                      args.filters)]
    /\ UNCHANGED <<coreVars, proxyVars, exchangeVars, args>>

\* sortTransactions on the list
SortTransactions ==
    /\ args.fn = "sortTransactions"
    /\ ~ret.returned
    /\ ret' = [returned |-> TRUE] @@
              sortTransactions(args.transactions, args.sortBy, args.sortOrder)
    /\ UNCHANGED <<coreVars, proxyVars, exchangeVars, args>>

NextFilters == ApplyFilters \/ SortTransactions

SpecFilters == InitFilters /\ [][NextFilters]_vars


\* what the filter state asks of a record, bound by bound
WithinDates(tx, filters) ==
    /\ (filters.start = NoDate \/ filters.start <= tx.datetimeUtc)
    /\ (filters.end = NoDate \/ tx.datetimeUtc <= filters.end)

SatisfiesSetFilters(tx, filters) ==
    /\ WithinDates(tx, filters)
    /\ (filters.direction = "all" \/ tx.direction = filters.direction)
    /\ (filters.type = "" \/ tx.type = filters.type)
    /\ (filters.asset = <<>> \/ lowerText(tx.asset) = lowerText(filters.asset))
    /\ (filters.search = <<>> \/
          \E field \in {tx.hash, tx.counterparty, tx.notes, tx.asset} :
              TextIncludes(lowerText(field), lowerText(filters.search)))

\* C19: applyFilters is idempotent and only removes records: filtering the
\* filtered list again with the same filter state changes nothing, and the
\* filtered list is the input list, in its order, without the records that
\* fail a set filter and with every record that satisfies all of them; a
\* record dated exactly at the start or at the end bound is kept.
C19_ApplyFiltersIdempotentSubsequence ==
    (args.fn = "applyFilters" /\ ret.returned) =>
        /\ ret.twice = ret.once
        /\ ret.once = SelectSeq(args.transactions,
                                LAMBDA tx : SatisfiesSetFilters(tx, args.filters))

\* a list of two filtered with both date bounds set: one record, dated
\* exactly at the end bound, is kept and the other is removed
C19_Witness ==
    /\ args.fn = "applyFilters"
    /\ ret.returned
    /\ args.filters.start # NoDate
    /\ args.filters.end # NoDate
    /\ Len(args.transactions) = 2
    /\ Len(ret.once) = 1
    /\ ret.once[1].datetimeUtc = args.filters.end
    /\ ret.twice = ret.once

RecognizedSortKeys == {"date", "amount", "fee", "type", "asset"}

\* the value sortTransactions compares two records by
SortValue(tx, sortBy) ==
    CASE sortBy = "date" -> tx.datetimeUtc
      [] sortBy = "amount" -> tx.amount
      [] sortBy = "fee" -> tx.fee
      [] sortBy = "type" -> TypeRank(tx.type)
      [] sortBy = "asset" -> AssetRank(tx.asset)

\* C20: sortTransactions never mutates its input list; for a sort key
\* outside date, amount, fee, type and asset it returns the records in the
\* input order, ascending and descending alike; for a recognized key the
\* records that compare equal stand in the output in their input order.
C20_SortKeepsInputAndTies ==
    (args.fn = "sortTransactions" /\ ret.returned) =>
        /\ ret.input = args.transactions
        /\ (args.sortBy \notin RecognizedSortKeys => ret.output = args.transactions)
        /\ (args.sortBy \in RecognizedSortKeys =>
              \A r \in Records :
                  SelectSeq(ret.output,
                            LAMBDA tx : SortValue(tx, args.sortBy) = SortValue(r, args.sortBy))
                  = SelectSeq(args.transactions,
                            LAMBDA tx : SortValue(tx, args.sortBy) = SortValue(r, args.sortBy)))

\* two different records of equal amount sorted by amount, descending: they
\* come back in the input order and the input list is as it was
C20_Witness ==
    /\ args.fn = "sortTransactions"
    /\ ret.returned
    /\ args.sortBy = "amount"
    /\ args.sortOrder = "desc"
    /\ Len(args.transactions) = 2
    /\ args.transactions[1] # args.transactions[2]
    /\ args.transactions[1].amount = args.transactions[2].amount
    /\ ret.output = args.transactions
    /\ ret.input = args.transactions

----------------------------------------------------------------------------
(* utils/filters.ts: the Awaken CSV export.  A text is a sequence of
   characters; a word that holds none of the characters the export looks
   for (a column name, a type, a direction) stands as one element. *)

Comma == ","

Quote == "\""

Newline == "\n"

Digits == <<"0", "1", "2", "3", "4", "5", "6", "7", "8", "9">>

\* String(n).padStart(2, '0') for 0 <= n <= 99
padStart2(n) == <<Digits[(n \div 10) + 1], Digits[(n % 10) + 1]>>

\* a four-digit getUTCFullYear()
YearText(y) ==
    <<Digits[(y \div 1000) + 1], Digits[((y \div 100) % 10) + 1],
      Digits[((y \div 10) % 10) + 1], Digits[(y % 10) + 1]>>

\* the UTC fields new Date(isoDate) reads from tx.datetimeUtc
formatDateForAwaken(d) ==
    padStart2(d.month) \o <<"/">> \o padStart2(d.day) \o <<"/">> \o YearText(d.year)
    \o <<" ">> \o padStart2(d.hours) \o <<":">> \o padStart2(d.minutes)
    \o <<":">> \o padStart2(d.seconds)

\* String.prototype.slice(0, n)
SliceTo(s, n) == SubSeq(s, 1, IF Len(s) < n THEN Len(s) ELSE n)

transactionToAwakenRow(tx) ==
    [Date |-> formatDateForAwaken(tx.datetimeUtc),
     Asset |-> tx.asset,
     Amount |-> tx.amount,
     Fee |-> tx.fee,
     PnL |-> IF tx.pnl # <<>> THEN tx.pnl ELSE <<"0">>,
     PaymentToken |-> tx.feeAsset,
     ID |-> SliceTo(tx.hash, 16),
     Notes |-> IF tx.notes # <<>> THEN tx.notes
               ELSE <<tx.type, " ", "-", " ", tx.direction>>,
     Tag |-> tx.tag,
     TransactionHash |-> tx.hash]

\* the headers array, and the key of AwakenCsvRow each header reads
headers ==
    <<"Date", "Asset", "Amount", "Fee", "P&L", "Payment Token", "ID", "Notes", "Tag",
      "Transaction Hash">>

RowValue(row, header) ==
    CASE header = "Date" -> row.Date
      [] header = "Asset" -> row.Asset
      [] header = "Amount" -> row.Amount
      [] header = "Fee" -> row.Fee
      [] header = "P&L" -> row.PnL
      [] header = "Payment Token" -> row.PaymentToken
      [] header = "ID" -> row.ID
      [] header = "Notes" -> row.Notes
      [] header = "Tag" -> row.Tag
      [] header = "Transaction Hash" -> row.TransactionHash

HasChar(s, c) == \E i \in 1..Len(s) : s[i] = c

\* value.replace(/"/, '""'): the first double quote only
RECURSIVE ReplaceFirstQuote(_)
ReplaceFirstQuote(s) ==
    IF s = <<>> THEN <<>>
    ELSE IF Head(s) = Quote THEN <<Quote, Quote>> \o Tail(s)
         ELSE <<Head(s)>> \o ReplaceFirstQuote(Tail(s))

\* value.replace(/"/g, '""')
RECURSIVE ReplaceQuotes(_)
ReplaceQuotes(s) ==
    IF s = <<>> THEN <<>>
    ELSE (IF Head(s) = Quote THEN <<Quote, Quote>> ELSE <<Head(s)>>)
         \o ReplaceQuotes(Tail(s))

\* the cell written without the g flag on the replace
EscapeCell_FirstQuoteOnly(value) ==
    IF HasChar(value, Comma) \/ HasChar(value, Quote) \/ HasChar(value, Newline)
    THEN <<Quote>> \o ReplaceFirstQuote(value) \o <<Quote>>
    ELSE value

\* the cell generateAwakenCsv writes for one value
EscapeCell(value) ==
    IF HasChar(value, Comma) \/ HasChar(value, Quote) \/ HasChar(value, Newline)
    THEN <<Quote>> \o ReplaceQuotes(value) \o <<Quote>>
    ELSE value

\* Array.prototype.join
RECURSIVE Join(_, _)
Join(parts, sep) ==
    IF parts = <<>> THEN <<>>
    ELSE IF Len(parts) = 1 THEN parts[1]
         ELSE parts[1] \o <<sep>> \o Join(Tail(parts), sep)

\* generateAwakenCsv with the header row left out
generateAwakenCsv_NoHeader(txs) ==
    Join([i \in 1..Len(txs) |->
            Join([h \in 1..Len(headers) |->
                    EscapeCell(RowValue(transactionToAwakenRow(txs[i]), headers[h]))],
                 Comma)],
         Newline)

generateAwakenCsv(txs) ==
    LET rows == [i \in 1..Len(txs) |->
                    Join([h \in 1..Len(headers) |->
                            EscapeCell(RowValue(transactionToAwakenRow(txs[i]), headers[h]))],
                         Comma)]
    IN Join(<<Join([h \in 1..Len(headers) |-> <<headers[h]>>], Comma)>> \o rows, Newline)

LongHash ==
    <<"0", "x", "1", "2", "3", "4", "5", "6", "7", "8", "9", "0", "a", "b", "c", "d", "e", "f">>

\* the records handed to the export
CsvRecords ==
    [datetimeUtc : {[year |-> 2026, month |-> 1, day |-> 15,
                     hours |-> 14, minutes |-> 30, seconds |-> 0]},
     asset : {<<"E", "T", "H">>, <<"a", Comma>>},
     amount : {<<"1", ".", "5">>},
     fee : {<<"0">>},
     pnl : {<<>>, <<"-", "2">>},
     feeAsset : {<<"E", "T", "H">>},
     hash : {<<"0", "x", "1">>, LongHash},
     notes : {<<>>, <<"a", Comma, "b">>, <<Quote, "a", Quote>>, <<"a", Newline, "b">>,
              <<"a", "\r">>},
     tag : {<<>>},
     type : {"transfer"},
     direction : {"out"}]

CsvArgs ==
    [fn : {"generateAwakenCsv"},
     transactions : UNION {[1..n -> CsvRecords] : n \in 0..MaxRecords}]

InitCsv == PureInit /\ args \in CsvArgs

GenerateAwakenCsv ==
    /\ args.fn = "generateAwakenCsv"
    /\ ~ret.returned
    /\ ret' = [returned |-> TRUE, csv |-> generateAwakenCsv(args.transactions)]
    /\ UNCHANGED <<coreVars, proxyVars, exchangeVars, args>>

NextCsv == GenerateAwakenCsv

SpecCsv == InitCsv /\ [][NextCsv]_vars


\* Reading the CSV text back: a comma or a newline separates when an even
\* number of double quotes stands before it (a doubled quote counts twice),
\* rows end at separating newlines and cells at separating commas.  Cells
\* are returned as written, quotes included.
SeparatorsAt(text, sep) ==
    {i \in 1..Len(text) :
        /\ text[i] = sep
        /\ Cardinality({j \in 1..(i - 1) : text[j] = Quote}) % 2 = 0}

\* the k-th position of a set of positions, 0 before the first and one past
\* the text after the last
Boundary(positions, k, text) ==
    IF k = 0 THEN 0
    ELSE IF k > Cardinality(positions) THEN Len(text) + 1
         ELSE CHOOSE p \in positions : Cardinality({q \in positions : q < p}) = k - 1

SplitOutsideQuotes(text, sep) ==
    LET positions == SeparatorsAt(text, sep)
    IN [k \in 1..(Cardinality(positions) + 1) |->
            SubSeq(text, Boundary(positions, k - 1, text) + 1,
                         Boundary(positions, k, text) - 1)]

CsvCells(text) ==
    LET lines == SplitOutsideQuotes(text, Newline)
    IN [r \in 1..Len(lines) |-> SplitOutsideQuotes(lines[r], Comma)]

IsWrapped(cell) == Len(cell) >= 2 /\ cell[1] = Quote /\ cell[Len(cell)] = Quote

RECURSIVE HalveQuotes(_)
HalveQuotes(s) ==
    IF s = <<>> THEN <<>>
    ELSE IF Head(s) = Quote /\ Len(s) >= 2 /\ s[2] = Quote
         THEN <<Quote>> \o HalveQuotes(Tail(Tail(s)))
         ELSE <<Head(s)>> \o HalveQuotes(Tail(s))

\* un-escaping a cell
Unescape(cell) ==
    IF IsWrapped(cell) THEN HalveQuotes(SubSeq(cell, 2, Len(cell) - 1)) ELSE cell

\* every quote inside the wrapping quotes stands in a pair
RECURSIVE QuotesDoubled(_)
QuotesDoubled(s) ==
    IF s = <<>> THEN TRUE
    ELSE IF Head(s) = Quote
         THEN Len(s) >= 2 /\ s[2] = Quote /\ QuotesDoubled(Tail(Tail(s)))
         ELSE QuotesDoubled(Tail(s))

NeedsQuoting(value) ==
    \E i \in 1..Len(value) : value[i] \in {Comma, Quote, Newline}

WellShaped(cells, n) ==
    /\ Len(cells) = n + 1
    /\ \A r \in 1..(n + 1) : Len(cells[r]) = 10

\* C21: in the CSV of generateAwakenCsv a field is wrapped in double quotes,
\* its own double quotes doubled, exactly when its value holds a comma, a
\* double quote or a newline; any other field is written unchanged; and
\* un-escaping each cell gives back the field value.
C21_CsvEscaping ==
    (args.fn = "generateAwakenCsv" /\ ret.returned) =>
        LET cells == CsvCells(ret.csv)
            n == Len(args.transactions)
        IN /\ WellShaped(cells, n)
           /\ \A i \in 1..n : \A h \in 1..10 :
                LET value == RowValue(transactionToAwakenRow(args.transactions[i]), headers[h])
                    cell == cells[i + 1][h]
                IN /\ NeedsQuoting(value) =>
                        /\ IsWrapped(cell)
                        /\ QuotesDoubled(SubSeq(cell, 2, Len(cell) - 1))
                   /\ ~NeedsQuoting(value) => cell = value
                   /\ Unescape(cell) = value

\* two records exported: one with notes in double quotes and an asset
\* holding a comma, one with a newline in its notes
C21_Witness ==
    /\ args.fn = "generateAwakenCsv"
    /\ ret.returned
    /\ Len(args.transactions) = 2
    /\ args.transactions[1].notes = <<Quote, "a", Quote>>
    /\ args.transactions[1].asset = <<"a", Comma>>
    /\ args.transactions[2].notes = <<"a", Newline, "b">>
    /\ CsvCells(ret.csv)[2][8] = <<Quote, Quote, Quote, "a", Quote, Quote, Quote>>

----------------------------------------------------------------------------
(* cosmos-factory.ts: one page request of a Cosmos-factory adapter, request
   by request.  fetchTransactions starts the sender query and the recipient
   query together (Promise.all); each runs the loop of fetchTxsFromLCD over
   config.lcdEndpoints on its own.  exchange holds what each endpoint
   answers to each query; ret holds how far each query has come. *)

Queries == {"sender", "recipient"}

FailoverResponses ==
    {Response("httpError", FALSE, <<>>, "", <<>>, 0),
     Response("json", TRUE, <<RawTx("T1", 1)>>, "", <<>>, 0),
     ErrorBody}

FailoverExchanges ==
    {[family |-> "cosmos", sender |-> a, recipient |-> b] :
        a \in SeqsOfLen(FailoverResponses, MaxEndpoints),
        b \in SeqsOfLen(FailoverResponses, MaxEndpoints)}

\* contacts: the endpoints a query has sent its request to, in time order;
\* servedBy: the endpoint whose answer the query returned (0: none yet);
\* thrown: the loop ran out of endpoints and threw lastError
InitFailover ==
    /\ HookInit
    /\ ledger = EmptyLedger
    /\ venue = "none"
    /\ perpsAddress = ""
    /\ rawFills = <<>>
    /\ rawFunding = <<>>
    /\ perpsResult = NotCalled
    /\ ProxyIdle
    /\ exchange \in FailoverExchanges
    /\ outcome = NoOutcome
    /\ args = [fn |-> "fetchTxsFromLCD"]
    /\ ret = [returned |-> FALSE,
              contacts |-> [q \in Queries |-> <<>>],
              servedBy |-> [q \in Queries |-> 0],
              thrown |-> [q \in Queries |-> FALSE]]

\* one turn of the for loop of fetchTxsFromLCD for query q: the request to
\* the next endpoint and its answer
LcdRequest(q) ==
    /\ args.fn = "fetchTxsFromLCD"
    /\ ret.servedBy[q] = 0
    /\ ~ret.thrown[q]
    /\ LET i == Len(ret.contacts[q]) + 1
           r == exchange[q][i]
       IN ret' = [ret EXCEPT !.contacts[q] = Append(@, i),
                             !.servedBy[q] = IF r.kind = "json" THEN i ELSE 0,
                             !.thrown[q] = r.kind # "json" /\ i = MaxEndpoints]
    /\ UNCHANGED <<coreVars, proxyVars, exchangeVars, args>>

\* Promise.all settles: rejected as soon as one query has thrown, resolved
\* when both have returned
CosmosSettle ==
    /\ args.fn = "fetchTxsFromLCD"
    /\ ~outcome.called
    /\ \/ \E q \in Queries :
            /\ ret.thrown[q]
            /\ outcome' = Rejected(LcdTry(exchange[q], <<>>).error)
       \/ /\ \A q \in Queries : ret.servedBy[q] # 0
          /\ outcome' \in CosmosOutcomes(exchange)
    /\ ret' = [ret EXCEPT !.returned = TRUE]
    /\ UNCHANGED <<coreVars, proxyVars, exchange, args>>

NextFailover == (\E q \in Queries : LcdRequest(q)) \/ CosmosSettle

SpecFailover == InitFailover /\ [][NextFailover]_vars

InFailover == args.fn = "fetchTxsFromLCD"

\* C23: within one page request of a Cosmos-factory adapter each query
\* contacts the endpoints in list order, each at most once, the next one
\* only after the one before has failed and none after one has succeeded;
\* the sender query and the recipient query are served by the same
\* endpoint; and the request fails only when every endpoint has failed.
C23_FailoverInOrderSameEndpoint ==
    InFailover =>
        /\ \A q \in Queries :
              /\ ret.contacts[q] = [i \in 1..Len(ret.contacts[q]) |-> i]
              /\ \A i \in 1..(Len(ret.contacts[q]) - 1) : exchange[q][i].kind # "json"
        /\ (\A q \in Queries : ret.servedBy[q] # 0) =>
              ret.servedBy["sender"] = ret.servedBy["recipient"]
        /\ (outcome.called /\ ~outcome.ok) =>
              \E q \in Queries : \A i \in 1..MaxEndpoints : exchange[q][i].kind # "json"

----------------------------------------------------------------------------
(* hyperliquid.ts fetchAllFills / fetchAllFunding and the dYdX adapter's
   fetchFills / fetchFundingPayments: the backward pagination loop, one turn
   of the for loop per step.  A page is what the loop reads of it: whether
   it is empty, shorter than the page size or full, the smallest timestamp
   in it and the timestamp of its last record.  The remote side answers
   each request with any page, or with an HTTP error. *)

MaxTime == 2

HYPERLIQUID_MAX_PAGES == 50

DYDX_MAX_PAGES == 100

MAX_PAGES(v) == IF v = "hyperliquid" THEN HYPERLIQUID_MAX_PAGES ELSE DYDX_MAX_PAGES

Pages ==
    {[length |-> "empty", oldest |-> 1, last |-> 1]}
    \cup {pg \in [length : {"short", "full"}, oldest : 1..MaxTime, last : 1..MaxTime] :
            pg.oldest <= pg.last}

\* response.ok of the request, and of the request to the alternative URL
\* that only the dYdX funding loop sends after a failed one
PageAnswers == [ok : BOOLEAN, altOk : BOOLEAN, page : Pages]

HasFallback(v, stream) == v = "dydx" /\ stream = "funding"

\* the end time of the next request, kept at the page's own time
NextEndTime_NoStep(v, page) ==
    IF v = "hyperliquid" THEN page.oldest ELSE page.last

\* Hyperliquid: Math.min(...fills.map(f => f.time)) - 1; dYdX: the last
\* record's createdAt / effectiveAt minus one millisecond
NextEndTime(v, page) ==
    IF v = "hyperliquid" THEN page.oldest - 1 ELSE page.last - 1

PaginationArgs ==
    [fn : {"fetchPages"}, venue : {"hyperliquid", "dydx"}, stream : {"fills", "funding"}]

\* before the loop: Hyperliquid's endTime is Date.now(), dYdX has no
\* createdBeforeOrAt / effectiveBeforeOrAt yet
InitPagination ==
    /\ HookInit
    /\ ledger = EmptyLedger
    /\ venue = "none"
    /\ perpsAddress = ""
    /\ rawFills = <<>>
    /\ rawFunding = <<>>
    /\ perpsResult = NotCalled
    /\ ProxyIdle
    /\ ExchangeIdle
    /\ args \in PaginationArgs
    /\ ret = [returned |-> FALSE, thrown |-> FALSE, page |-> 0, requests |-> 0,
              endSet |-> args.venue = "hyperliquid", endTime |-> MaxTime,
              prevSet |-> FALSE, prevEndTime |-> MaxTime,
              lastPage |-> [length |-> "none", oldest |-> 1, last |-> 1]]

\* one turn of the for loop
PageRequest ==
    /\ args.fn = "fetchPages"
    /\ ~ret.returned
    /\ ret.page < MAX_PAGES(args.venue)
    /\ \E a \in PageAnswers :
         LET retried == ~a.ok /\ HasFallback(args.venue, args.stream)
             ok == a.ok \/ (retried /\ a.altOk)
             sent == ret.requests + (IF retried THEN 2 ELSE 1)
         IN ret' =
              IF ~ok
              THEN [ret EXCEPT !.returned = TRUE, !.thrown = TRUE, !.requests = sent]
              ELSE IF a.page.length \in {"empty", "short"}
                   THEN [ret EXCEPT !.returned = TRUE, !.requests = sent,
                                    !.lastPage = a.page]
                   ELSE [ret EXCEPT !.returned = (ret.page + 1 = MAX_PAGES(args.venue)),
                                    !.requests = sent,
                                    !.page = ret.page + 1,
                                    !.prevSet = ret.endSet,
                                    !.prevEndTime = ret.endTime,
                                    !.endSet = TRUE,
                                    !.endTime = NextEndTime(args.venue, a.page),
                                    !.lastPage = a.page]
    /\ UNCHANGED <<coreVars, proxyVars, exchangeVars, args>>

NextPagination == PageRequest

SpecPagination == InitPagination /\ [][NextPagination]_vars

InPagination == args.fn = "fetchPages"

\* the loop will send another request
LoopRunning == InPagination /\ ~ret.returned /\ ret.page > 0

\* C24 as stated: every stream sends at most MAX_PAGES requests, stops at
\* the first page that is empty or shorter than the page size, asks each
\* following request for an end time one millisecond before the oldest
\* timestamp of the page before, and the requested end time strictly
\* decreases, whatever the remote side answers.
C24_PaginationBoundedDecreasing ==
    InPagination =>
        /\ ret.requests <= MAX_PAGES(args.venue)
        /\ (ret.lastPage.length \in {"empty", "short"} => ret.returned)
        /\ (LoopRunning => ret.endTime = ret.lastPage.oldest - 1)
        /\ (LoopRunning /\ ret.prevSet => ret.endTime < ret.prevEndTime)

\* C24 amended: every stream runs at most MAX_PAGES turns of its loop, with
\* one request a turn and a second one in a turn of the dYdX funding loop
\* whose first request failed; it stops at the first page that is empty or
\* shorter than the page size; each following request asks for an end time
\* one millisecond before the oldest timestamp of the page before
\* (Hyperliquid) or before the timestamp of its last record (dYdX); and the
\* requested end time strictly decreases from one request to the next when
\* that timestamp is not later than the end time the page was requested for.
C24_PaginationBounded ==
    InPagination =>
        /\ ret.page <= MAX_PAGES(args.venue)
        /\ ret.requests <= (IF HasFallback(args.venue, args.stream) THEN 2 ELSE 1)
                           * MAX_PAGES(args.venue)
        /\ (ret.returned /\ ~ret.thrown /\ ret.lastPage.length = "full" =>
                ret.page = MAX_PAGES(args.venue))
        /\ (ret.lastPage.length \in {"empty", "short"} => ret.returned)
        /\ (LoopRunning =>
                ret.endTime = (IF args.venue = "hyperliquid" THEN ret.lastPage.oldest
                               ELSE ret.lastPage.last) - 1)
        /\ (LoopRunning /\ ret.prevSet
            /\ (IF args.venue = "hyperliquid" THEN ret.lastPage.oldest
                ELSE ret.lastPage.last) <= ret.prevEndTime
              => ret.endTime < ret.prevEndTime)

\* a Hyperliquid stream that has read full pages up to the page limit, the
\* last ones within the end time they were requested for
C24_Witness ==
    /\ InPagination
    /\ args.venue = "hyperliquid"
    /\ ret.returned
    /\ ~ret.thrown
    /\ ret.page = HYPERLIQUID_MAX_PAGES
    /\ ret.requests = HYPERLIQUID_MAX_PAGES
    /\ ret.lastPage.length = "full"
    /\ ret.prevSet
    /\ ret.endTime < ret.prevEndTime

----------------------------------------------------------------------------
(* perps/base: validatePerpsTransaction, as the set of fields it reports *)

VALID_PERPS_TAGS == {"open_position", "close_position", "funding_payment"}

\* parseFloat(tx.pnl) !== 0 for the pnl text truncateDecimals(pnl).toString()
\* gives: "NaN" parses to NaN, which is not 0
PnlNotZero(pnl) == IsNaN(pnl) \/ pnl # 0

validatePerpsTransaction(tx) ==
    (IF tx.asset = "" THEN {"asset"} ELSE {})
    \cup (IF tx.hash = <<>> THEN {"hash"} ELSE {})
    \cup (IF tx.tag # "" /\ tx.tag \notin VALID_PERPS_TAGS THEN {"tag"} ELSE {})
    \cup (IF tx.tag \in {"close_position", "funding_payment"}
             /\ tx.paymentToken \in {Undefined, ""}
          THEN {"paymentToken"} ELSE {})
    \cup (IF tx.tag = "open_position" /\ PnlNotZero(tx.pnl) THEN {"pnl"} ELSE {})

PerpsReturned == perpsResult.called /\ perpsResult.ok

----------------------------------------------------------------------------
(* Claims about the orchestrator's loading and error states *)

SessionInFlight == \E i \in 1..Len(inflight) : inflight[i].session = session

\* C26: the loading flag is true in exactly the states in which an adapter
\* request of the session is outstanding: never false while one is still in
\* flight, never true when none is.
C26_LoadingIffInFlight == loading <=> SessionInFlight


\* C27: success and error exclude each other: when the adapter call of a
\* fetch or of a loadMore completes successfully the error string is null
\* afterwards, also when an earlier call of the session had failed.
C27_SuccessClearsError ==
    [][(event'.op = "settle" /\ event'.ok) => error' = Null]_vars


\* C28: paging a Cosmos-factory adapter from the first page along nextCursor
\* until hasMore is false loses nothing: every transaction of the sender
\* result set or of the recipient result set is in the accumulated list,
\* also the ones the page-size truncation of the merged list cut off.
C28_PaginationLosesNothing ==
    (venue = "none" /\ event.op = "settle" /\ lastResult.ok /\ ~hasMore
     /\ Len(inflight) = 0) =>
        (RawHashSet(ledger["osmoA"].sender) \cup RawHashSet(ledger["osmoA"].recipient))
            \subseteq HashSet(transactions)

----------------------------------------------------------------------------
(* adapters/index.ts: the whole registry.  The object literal is evaluated
   entry by entry: the adapters of the three factories are spread in first,
   each under its config.id, then the bespoke adapters are set under their
   keys; a key set again takes the later adapter.  An adapter is described
   by its chainInfo.id and by where it comes from. *)

evmChainIds ==
    <<"ethereum", "arbitrum", "optimism", "base", "polygon", "zksync", "immutable",
      "oasys", "beam", "moonbeam">>

cosmosChainIds ==
    <<"osmosis", "cosmos", "celestia", "dydx", "sei", "injective", "neutron", "noble">>

substrateChainIds == <<"polkadot", "kusama", "astar", "acala">>

\* generateEvmAdapters, generateCosmosAdapters, generateSubstrateAdapters:
\* adapters[config.id] = create...Adapter(config), whose chainInfo.id is
\* config.id
Generated(ids, factory) ==
    [i \in 1..Len(ids) |-> [key |-> ids[i], id |-> ids[i], origin |-> factory]]

Bespoke(key) == [key |-> key, id |-> key, origin |-> "bespoke"]

registryEntries ==
    Generated(evmChainIds, "evm") \o Generated(cosmosChainIds, "cosmos")
    \o Generated(substrateChainIds, "substrate")
    \o <<Bespoke("bittensor"), Bespoke("ronin"), Bespoke("variational"),
         Bespoke("extended"), Bespoke("hyperliquid"), Bespoke("dydx"), Bespoke("gmx")>>

\* one property of the object literal
SetKey(registry, entry) ==
    [k \in DOMAIN registry \cup {entry.key} |->
        IF k = entry.key THEN [id |-> entry.id, origin |-> entry.origin]
        ELSE registry[k]]

RegistryArgs ==
    [fn : {"getAdapter"},
     chainId : {registryEntries[i].key : i \in 1..Len(registryEntries)}
               \cup {"solana", ""}]

InitRegistry ==
    /\ HookInit
    /\ ledger = EmptyLedger
    /\ venue = "none"
    /\ perpsAddress = ""
    /\ rawFills = <<>>
    /\ rawFunding = <<>>
    /\ perpsResult = NotCalled
    /\ ProxyIdle
    /\ ExchangeIdle
    /\ args \in RegistryArgs
    /\ ret = [returned |-> FALSE, built |-> 0, adapters |-> <<>>,
              found |-> FALSE, adapter |-> [id |-> "", origin |-> ""]]

\* the module is loaded: the next entry of the object literal
RegisterAdapter ==
    /\ args.fn = "getAdapter"
    /\ ret.built < Len(registryEntries)
    /\ ret' = [ret EXCEPT !.built = @ + 1,
                          !.adapters = SetKey(@, registryEntries[ret.built + 1])]
    /\ UNCHANGED <<coreVars, proxyVars, exchangeVars, args>>

\* getAdapter(chainId) on the loaded module
GetAdapter ==
    /\ args.fn = "getAdapter"
    /\ ret.built = Len(registryEntries)
    /\ ~ret.returned
    /\ ret' = IF args.chainId \in DOMAIN ret.adapters
              THEN [ret EXCEPT !.returned = TRUE, !.found = TRUE,
                               !.adapter = ret.adapters[args.chainId]]
              ELSE [ret EXCEPT !.returned = TRUE]
    /\ UNCHANGED <<coreVars, proxyVars, exchangeVars, args>>

NextRegistry == RegisterAdapter \/ GetAdapter

SpecRegistry == InitRegistry /\ [][NextRegistry]_vars

FactoryOf(chainId) ==
    {f \in {"evm", "cosmos", "substrate"} :
        \E i \in 1..Len(registryEntries) :
            registryEntries[i].key = chainId /\ registryEntries[i].origin = f}

\* C29: the registry is a faithful map: every key holds the adapter whose
\* chainInfo.id is that key; getAdapter of the id of a chain config of the
\* EVM, Cosmos or Substrate factory returns the adapter generated from that
\* config, no bespoke adapter standing in its place; getAdapter of an
\* unregistered identifier returns undefined.
C29_RegistryFaithful ==
    (args.fn = "getAdapter" /\ ret.returned) =>
        /\ \A k \in DOMAIN ret.adapters : ret.adapters[k].id = k
        /\ (FactoryOf(args.chainId) # {} =>
                /\ ret.found
                /\ ret.adapter.id = args.chainId
                /\ ret.adapter.origin \in FactoryOf(args.chainId))
        /\ (args.chainId \in {"solana", ""} => ~ret.found)

====
